---- MODULE Spec2Model ----
(***************************************************************************)
(* The Prometheus exporter of tpuff: the refresh cycle (refreshMetrics),   *)
(* the region fan-out fetcher (fetchNamespacesWithMetadata), the two       *)
(* caches, the exposition encoder and the HTTP handlers, as one state      *)
(* machine.  Time is in milliseconds, as Date.now() gives it.              *)
(*                                                                         *)
(* Text is a sequence of lines (every piece of text the program builds     *)
(* ends with a newline).  A string that is used as a label value is a      *)
(* sequence of atoms: an atom is one of the three characters escapeLabel   *)
(* rewrites, or a run of other characters.  A decimal number is a record   *)
(* [int, frac] with frac in thousandths.                                   *)
(***************************************************************************)
EXTENDS Integers, Sequences, FiniteSets, TLC

(* ---------------------------------------------------------------- values *)

Null == [null |-> TRUE]
Undefined == "<undefined>"
Falsy(s) == s \in {Undefined, ""}

Str(s) == <<s>>
BS == "\\"
DQ == "\""
NL == "\n"

Num(i) == [int |-> i, frac |-> 0]
Div1000(ms) == [int |-> ms \div 1000, frac |-> ms % 1000]
toISOString(date) == [iso |-> Div1000(date)]

RECURSIVE Flatten(_)
Flatten(seqs) ==
  IF seqs = <<>> THEN <<>> ELSE Head(seqs) \o Flatten(Tail(seqs))

Range(s) == {s[i] : i \in DOMAIN s}

(* --------------------------------------------------------------- regions *)

TURBOPUFFER_REGIONS ==
  << "gcp-us-central1", "gcp-us-west1", "gcp-us-east4",
     "gcp-northamerica-northeast2", "gcp-europe-west3",
     "gcp-asia-southeast1", "gcp-asia-northeast3",
     "aws-ap-southeast-2", "aws-eu-central-1", "aws-eu-west-1",
     "aws-us-east-1", "aws-us-east-2", "aws-us-west-2", "aws-ap-south-1" >>

DefaultRegion == "aws-us-east-1"

(* The region a client talks to: the override, else the default. *)
getTurbopufferClient(regionOverride) ==
  IF Falsy(regionOverride) THEN DefaultRegion ELSE regionOverride

(* ------------------------------------------------------ metadata helpers *)

getEncryptionType(metadata) ==
  IF metadata = Null \/ metadata.encryption = Null THEN "sse"
  ELSE IF metadata.encryption.cmek # Null THEN "cmek"
  ELSE "sse"

getIndexStatus(metadata) ==
  IF metadata = Null \/ metadata.index = Null THEN "up-to-date"
  ELSE metadata.index.status

(* The upstream value whatever the index status. *)
getUnindexedBytesRaw(metadata) ==
  IF metadata = Null \/ metadata.index = Null THEN 0
  ELSE IF metadata.index.unindexed_bytes = <<>> THEN 0
  ELSE metadata.index.unindexed_bytes[1]

getUnindexedBytes(metadata) ==
  IF metadata = Null \/ metadata.index = Null THEN 0
  ELSE IF metadata.index.status = "up-to-date" THEN 0
  ELSE IF metadata.index.unindexed_bytes = <<>> THEN 0
  ELSE metadata.index.unindexed_bytes[1]

(* ------------------------------------------------------ exposition text *)

RECURSIVE ReplaceAll(_, _, _)
ReplaceAll(str, ch, repl) ==
  IF str = <<>> THEN <<>>
  ELSE (IF Head(str) = ch THEN repl ELSE <<Head(str)>>)
         \o ReplaceAll(Tail(str), ch, repl)

(* The three replacements with the quotes done before the backslashes. *)
escapeLabelQuotesFirst(value) ==
  ReplaceAll(ReplaceAll(ReplaceAll(value, DQ, <<BS, DQ>>), BS, <<BS, BS>>),
             NL, <<BS, "n">>)

escapeLabel(value) ==
  ReplaceAll(ReplaceAll(ReplaceAll(value, BS, <<BS, BS>>), DQ, <<BS, DQ>>),
             NL, <<BS, "n">>)

HelpLine(metric) == [k |-> "help", name |-> metric.name, help |-> metric.help]
TypeLine(metric) == [k |-> "type", name |-> metric.name, type |-> metric.type]
BlankLine == [k |-> "blank"]

SampleLine(metric, v) ==
  LET labelPairs == [i \in DOMAIN v.labels |->
                       [key |-> v.labels[i].key,
                        val |-> escapeLabel(v.labels[i].val)]]
  IN [k |-> "sample", name |-> metric.name, braces |-> labelPairs # <<>>,
      labels |-> labelPairs, value |-> v.value]

formatPrometheusMetric(metric) ==
  <<HelpLine(metric), TypeLine(metric)>>
    \o [i \in DOMAIN metric.values |-> SampleLine(metric, metric.values[i])]

(* metrics.map(formatPrometheusMetric).join('\n'): every metric's text     *)
(* ends with a newline, so the separator shows as a blank line.            *)
formatPrometheusMetrics(metrics) ==
  Flatten([i \in DOMAIN metrics |->
             (IF i = 1 THEN <<>> ELSE <<BlankLine>>)
               \o formatPrometheusMetric(metrics[i])])

createSimpleGauge(name, help, value) ==
  [name |-> name, type |-> "gauge", help |-> help,
   values |-> <<[labels |-> <<>>, value |-> value]>>]

getCurrentTimestamp(t) == t \div 1000

(* ------------------------------------------- generatePrometheusMetrics *)

(* Labels that never name the region. *)
LabelsRegionUnknown(ns) ==
  << [key |-> "namespace", val |-> ns.namespace.id],
     [key |-> "region", val |-> Str("unknown")],
     [key |-> "encryption", val |-> Str(getEncryptionType(ns.metadata))],
     [key |-> "index_status", val |-> Str(getIndexStatus(ns.metadata))] >>

Labels(ns) ==
  << [key |-> "namespace", val |-> ns.namespace.id],
     [key |-> "region",
      val |-> Str(IF Falsy(ns.region) THEN "unknown" ELSE ns.region)],
     [key |-> "encryption", val |-> Str(getEncryptionType(ns.metadata))],
     [key |-> "index_status", val |-> Str(getIndexStatus(ns.metadata))] >>

HasMetadata(ns) == ns.metadata # Null
HasRecall(ns) == ns.recall # Null

Family(name, help, values) ==
  [name |-> name, type |-> "gauge", help |-> help, values |-> values]

(* A rendering that keeps the families without values. *)
generatePrometheusMetricsKeepsEmpty(namespaces) ==
  LET kept == SelectSeq(namespaces, HasMetadata)
      withRecall == SelectSeq(kept, HasRecall)
      rowsMetric ==
        Family("turbopuffer_namespace_rows",
               "Approximate number of rows in namespace",
               [i \in DOMAIN kept |->
                  [labels |-> Labels(kept[i]),
                   value |-> Num(kept[i].metadata.approx_row_count)]])
      logicalBytesMetric ==
        Family("turbopuffer_namespace_logical_bytes",
               "Approximate logical storage size in bytes",
               [i \in DOMAIN kept |->
                  [labels |-> Labels(kept[i]),
                   value |-> Num(kept[i].metadata.approx_logical_bytes)]])
      unindexedBytesMetric ==
        Family("turbopuffer_namespace_unindexed_bytes",
               "Number of unindexed bytes (0 when index is up-to-date)",
               [i \in DOMAIN kept |->
                  [labels |-> Labels(kept[i]),
                   value |-> Num(getUnindexedBytes(kept[i].metadata))]])
      recallMetric ==
        Family("turbopuffer_namespace_recall",
               "Average vector recall estimation (0-1 scale)",
               [i \in DOMAIN withRecall |->
                  [labels |-> Labels(withRecall[i]),
                   value |-> withRecall[i].recall.avg_recall]])
      infoMetric ==
        Family("turbopuffer_namespace_info",
               "Namespace information with labels",
               [i \in DOMAIN kept |->
                  [labels |-> Labels(kept[i]) \o
                     <<[key |-> "updated_at",
                        val |-> kept[i].metadata.updated_at]>>,
                   value |-> Num(1)]])
  IN <<rowsMetric, logicalBytesMetric, unindexedBytesMetric,
       recallMetric, infoMetric>>

generatePrometheusMetrics(namespaces) ==
  LET kept == SelectSeq(namespaces, HasMetadata)
      withRecall == SelectSeq(kept, HasRecall)
      rowsMetric ==
        Family("turbopuffer_namespace_rows",
               "Approximate number of rows in namespace",
               [i \in DOMAIN kept |->
                  [labels |-> Labels(kept[i]),
                   value |-> Num(kept[i].metadata.approx_row_count)]])
      logicalBytesMetric ==
        Family("turbopuffer_namespace_logical_bytes",
               "Approximate logical storage size in bytes",
               [i \in DOMAIN kept |->
                  [labels |-> Labels(kept[i]),
                   value |-> Num(kept[i].metadata.approx_logical_bytes)]])
      unindexedBytesMetric ==
        Family("turbopuffer_namespace_unindexed_bytes",
               "Number of unindexed bytes (0 when index is up-to-date)",
               [i \in DOMAIN kept |->
                  [labels |-> Labels(kept[i]),
                   value |-> Num(getUnindexedBytes(kept[i].metadata))]])
      recallMetric ==
        Family("turbopuffer_namespace_recall",
               "Average vector recall estimation (0-1 scale)",
               [i \in DOMAIN withRecall |->
                  [labels |-> Labels(withRecall[i]),
                   value |-> withRecall[i].recall.avg_recall]])
      infoMetric ==
        Family("turbopuffer_namespace_info",
               "Namespace information with labels",
               [i \in DOMAIN kept |->
                  [labels |-> Labels(kept[i]) \o
                     <<[key |-> "updated_at",
                        val |-> kept[i].metadata.updated_at]>>,
                   value |-> Num(1)]])
      NonEmpty(m) == m.values # <<>>
  IN SelectSeq(<<rowsMetric, logicalBytesMetric, unindexedBytesMetric,
                 recallMetric, infoMetric>>, NonEmpty)

(* ------------------------------------------------------------ bounds *)

MaxIntervals == 2
MaxInFlight == 2
RegionsMaxIntervals == 1
RegionsMaxInFlight == 1
RecallMaxIntervals == 61
RecallMaxInFlight == 1
RecallMaxListFaults == 1
PartialMaxIntervals == 2
PartialMaxInFlight == 2
MaxLabelLen == 3
EscapeMaxIntervals == 1
EscapeMaxInFlight == 1
CliMaxIntervals == 1
CliMaxInFlight == 1
ShutdownMaxIntervals == 2
ShutdownMaxInFlight == 2
ShutdownMaxListFaults == 1
KeysMaxIntervals == 1
KeysMaxInFlight == 1

(* The delete command: how many namespaces a listing has at most. *)
DeleteMaxNamespaces == 2

(* ------------------------------------------------------------- state *)

VARIABLES
  options,            \* ServerOptions, fixed once the command has parsed them
  env,                \* the turbopuffer API as this run meets it: the
                      \* namespaces per region, which calls may fail, the
                      \* recall values, and the limits of the run
  now,                \* Date.now()
  pc,                 \* where startHttpServer and the process are
  metricsCache,       \* module-level metricsCache
  recallCache,        \* module-level recallCache
  lastScrape,         \* module-level lastScrapeSuccess, lastScrapeDuration
  cycles,             \* the refreshMetrics calls that are awaiting their fetch
  started,            \* how many refreshMetrics calls have been made
  timer,              \* the setInterval timer: armed, and when it fires next
  forceExit,          \* the setTimeout of shutdown: <<>>, or <<its time>>
  response,           \* the HTTP response the last step sent, if it sent one
  deleteCmd,          \* the run of the delete command, if that is the command
  audit               \* history the properties refer to, never read by the code

vars == <<options, env, now, pc, metricsCache, recallCache,
          lastScrape, cycles, started, timer, forceExit, response,
          deleteCmd, audit>>

(* ----------------------------------------------------------- upstream *)

Metadata(rows, bytes, status, unindexed) ==
  [approx_row_count |-> rows, approx_logical_bytes |-> bytes,
   index |-> [status |-> status, unindexed_bytes |-> unindexed],
   encryption |-> Null, updated_at |-> Str("2025-01-01T00:00:00Z")]

Recall(thousandths) ==
  [avg_recall |-> Div1000(thousandths), avg_ann_count |-> Num(10),
   avg_exhaustive_count |-> Num(10)]

RecallVals == {Recall(950), Recall(1000)}

NsA == [id |-> Str("a"), metadata |-> Metadata(100, 2048, "up-to-date", <<256>>)]
NsB == [id |-> Str("b"), metadata |-> Metadata(5, 512, "updating", <<256>>)]
NsA2 == [id |-> Str("a"), metadata |-> Metadata(7, 64, "updating", <<>>)]

World ==
  [r \in Range(TURBOPUFFER_REGIONS) |->
     CASE r = "gcp-us-central1" -> <<NsA, NsB>>
       [] r = "aws-us-east-1" -> <<NsA2>>
       [] OTHER -> <<>>]

(* One region with one namespace. *)
SmallWorld ==
  [r \in Range(TURBOPUFFER_REGIONS) |->
     IF r = "gcp-us-central1" THEN <<NsB>> ELSE <<>>]

Faults == {"list", "metadata", "recall"}

(* Date.now() when the process starts: later than any recall interval. *)
ProcessStart == 10000 * 1000

(* The run ends n refresh intervals after the process started. *)
Horizon(interval, n) == ProcessStart + n * interval * 1000

Env(world, faults, recallVals, horizon, maxInFlight, listFaults) ==
  [world |-> world, faults |-> faults, recallVals |-> recallVals,
   horizon |-> horizon, maxInFlight |-> maxInFlight,
   listFaults |-> listFaults]

ErrorMessages == {"fetch failed"}

Delays(opts) == {opts.interval * 1000}

(* ------------------------------------------------------------- caches *)

Placeholder == <<[k |-> "comment", text |-> "Waiting for first scrape..."]>>

InitMetricsCache ==
  [data |-> Placeholder, lastUpdate |-> ProcessStart, error |-> Undefined]

InitRecallCache == [data |-> <<>>, lastUpdate |-> 0]

ErrorComment(errorMessage, lastUpdate) ==
  << [k |-> "comment", text |-> "Error refreshing metrics: ",
      arg |-> Str(errorMessage)],
     [k |-> "comment", text |-> "Last successful update: ",
      arg |-> toISOString(lastUpdate)],
     BlankLine >>

(* recallCache.data.clear(), then set(ns.namespace.id, ...) for every      *)
(* namespace with a recall value, in order: a later one replaces an        *)
(* earlier one of the same id.                                             *)
RECURSIVE RecallEntries(_, _)
RecallEntries(namespaces, data) ==
  IF namespaces = <<>> THEN data
  ELSE LET ns == Head(namespaces)
       IN RecallEntries(Tail(namespaces),
            IF ns.recall # Null
            THEN (ns.namespace.id :> [recall |-> ns.recall, region |-> ns.region])
                   @@ data
            ELSE data)

(* A merge that does not compare the regions. *)
MergeCachedRecallAnyRegion(namespaces, data) ==
  [i \in DOMAIN namespaces |->
     LET ns == namespaces[i]
     IN IF ns.namespace.id \in DOMAIN data
        THEN [ns EXCEPT !.recall = data[ns.namespace.id].recall]
        ELSE ns]

(* recallCache.data.get(ns.namespace.id), used when its region is the      *)
(* region of the namespace.                                                *)
MergeCachedRecall(namespaces, data) ==
  [i \in DOMAIN namespaces |->
     LET ns == namespaces[i]
     IN IF ns.namespace.id \in DOMAIN data
           /\ data[ns.namespace.id].region = ns.region
        THEN [ns EXCEPT !.recall = data[ns.namespace.id].recall]
        ELSE ns]

(* No HTTP response was sent. *)
NoResponse == [status |-> 0]

(* ------------------------------------------------------ refreshMetrics *)

(* A fetch that leaves out the last region of the list. *)
TargetRegionsButLast(opts) ==
  IF opts.allRegions
  THEN SubSeq(TURBOPUFFER_REGIONS, 1, Len(TURBOPUFFER_REGIONS) - 1)
  ELSE <<opts.region>>

(* The regions one fetch visits, in order. *)
TargetRegions(opts) ==
  IF opts.allRegions THEN TURBOPUFFER_REGIONS ELSE <<opts.region>>

(* The region label a namespace of the fetch carries. *)
RegionOf(opts, ri) == TargetRegions(opts)[ri]

(* A recall refresh that does not look at includeRecall. *)
shouldRefreshRecallUnconditional(opts, t, cache) ==
  t - cache.lastUpdate >= opts.recallInterval * 1000

(* A recall refresh that compares milliseconds with seconds. *)
shouldRefreshRecallSeconds(opts, t, cache) ==
  opts.includeRecall /\ (t - cache.lastUpdate >= opts.recallInterval)

shouldRefreshRecall(opts, t, cache) ==
  opts.includeRecall /\ (t - cache.lastUpdate >= opts.recallInterval * 1000)

(* A refreshMetrics call up to its first await: the listing call of the    *)
(* first target region is in flight.  pre is what the caches held then,    *)
(* and the call is the nth since the recall cache was last replaced.       *)
NewCycle(id) ==
  [id |-> id, startTime |-> now,
   shouldRefreshRecall |-> shouldRefreshRecall(options, now, recallCache),
   ri |-> 1, stage |-> "list", page |-> <<>>, metadataList |-> <<>>,
   acc |-> <<>>,
   nth |-> audit.sinceRecall + 1,
   pre |-> [metrics |-> metricsCache, recall |-> recallCache,
            completed |-> audit.completed]]

Others(c) == cycles \ {c}

Running == pc \in {"initial", "binding", "listening", "closing"}

(* What startHttpServer does once the initial refreshMetrics has resolved: *)
(* setInterval, createServer, the signal handlers and server.listen.       *)
AfterCycle(c) ==
  IF c.id = 0
  THEN /\ pc' = "binding"
       /\ timer' = [armed |-> TRUE, next |-> now + options.interval * 1000]
  ELSE UNCHANGED <<pc, timer>>

(* History of the listing calls of cycle c: one has succeeded; the one of  *)
(* region r, which holds namespaces, has failed; the cycle has ended.      *)
Listed(aud, c) == [aud EXCEPT !.listed = @ \cup {c.id}]

Skipped(aud, c, r) ==
  IF env.world[r] # <<>>
  THEN [aud EXCEPT !.skipped = @ \cup {<<c.id, r>>}]
  ELSE aud

Ended(aud, c) ==
  [aud EXCEPT
     !.lastSkipped = {p[2] : p \in {q \in aud.skipped : q[1] = c.id}},
     !.lastOutage = c.id \notin aud.listed,
     !.lastNoMetadata =
        {<<p[2], p[3]>> : p \in {q \in aud.noMetadata : q[1] = c.id}},
     !.lastNoRecall =
        {<<p[2], p[3]>> : p \in {q \in aud.noRecall : q[1] = c.id}},
     !.skipped = {q \in @ : q[1] # c.id},
     !.listed = @ \ {c.id},
     !.noMetadata = {q \in @ : q[1] # c.id},
     !.noRecall = {q \in @ : q[1] # c.id}]

(* History of the namespace calls of cycle c in its current region: the    *)
(* metadata calls, and the recall calls, that failed.                      *)
NoMetadata(aud, c, metadataList) ==
  [aud EXCEPT !.noMetadata = @ \cup
     {<<c.id, c.page[i].id, RegionOf(options, c.ri)>> :
        i \in {j \in DOMAIN c.page : metadataList[j] = Null}}]

NoRecall(aud, c, recallList) ==
  [aud EXCEPT !.noRecall = @ \cup
     {<<c.id, c.page[i].id, RegionOf(options, c.ri)>> :
        i \in {j \in DOMAIN c.page : recallList[j] = Null}}]

(* History of the recall values of a fetch: the value each (id, region)    *)
(* of the fetch came back with.                                            *)
Computed(namespaces) ==
  LET with == {i \in DOMAIN namespaces : namespaces[i].recall # Null}
      KeyOf(i) == <<namespaces[i].namespace.id, namespaces[i].region>>
  IN [k \in {KeyOf(i) : i \in with} |->
        namespaces[CHOOSE i \in with : KeyOf(i) = k].recall]

(* fetchNamespacesWithMetadata has returned: the rest of the try block.    *)
FetchReturned(c, namespaces, aud) ==
  LET merged ==
        IF c.shouldRefreshRecall THEN namespaces
        ELSE IF options.includeRecall
             THEN MergeCachedRecall(namespaces, recallCache.data)
             ELSE namespaces
      scrapeDuration == Div1000(now - c.startTime)
      metrics ==
        generatePrometheusMetrics(merged)
          \o << createSimpleGauge(
                  "turbopuffer_exporter_scrape_duration_seconds",
                  "Time taken to fetch metrics from Turbopuffer API",
                  scrapeDuration),
                createSimpleGauge(
                  "turbopuffer_exporter_last_scrape_timestamp_seconds",
                  "Unix timestamp of last successful scrape",
                  Num(getCurrentTimestamp(now))) >>
      metricsText == formatPrometheusMetrics(metrics)
      newRecall ==
        IF c.shouldRefreshRecall
        THEN [data |-> RecallEntries(namespaces, <<>>), lastUpdate |-> now]
        ELSE recallCache
  IN /\ recallCache' = newRecall
     /\ lastScrape' = [success |-> TRUE, duration |-> scrapeDuration]
     /\ metricsCache' =
          [data |-> metricsText, lastUpdate |-> now, error |-> Undefined]
     /\ cycles' = Others(c)
     /\ audit' = [Ended(aud, c) EXCEPT
                    !.succeeded = TRUE, !.lastOutcome = "ok",
                    !.lastGood = metricsText, !.fails = 0,
                    !.completed = @ + 1,
                    !.initial = IF c.id = 0 THEN "ok" ELSE @,
                    !.initialRecall = IF c.id = 0 THEN newRecall ELSE @,
                    !.lastRefreshedRecall = c.shouldRefreshRecall,
                    !.sinceRecall = IF c.shouldRefreshRecall THEN 0 ELSE @,
                    !.computed = IF c.shouldRefreshRecall
                                 THEN Computed(namespaces) ELSE @,
                    !.everComputed = IF c.shouldRefreshRecall
                                     THEN Computed(namespaces) @@ @ ELSE @,
                    !.fetched = {<<namespaces[i].namespace.id,
                                   namespaces[i].region>> :
                                   i \in DOMAIN namespaces}]
     /\ AfterCycle(c)

(* A failed cycle that starts over from the placeholder. *)
StaleDataReset(errorComment, data) == InitMetricsCache.data

(* A failed cycle that serves the comment alone. *)
StaleDataDropped(errorComment, data) == errorComment

(* errorComment + metricsCache.data *)
StaleData(errorComment, data) == errorComment \o data

(* A catch block that marks the recall cache as refreshed. *)
RefreshFailedStampsRecall(c, errorMessage) ==
  LET errorComment == ErrorComment(errorMessage, metricsCache.lastUpdate)
  IN /\ lastScrape' = [lastScrape EXCEPT !.success = FALSE]
     /\ metricsCache' =
          [metricsCache EXCEPT !.error = errorMessage,
                               !.data = StaleData(errorComment, @)]
     /\ cycles' = Others(c)
     /\ audit' = [Ended(audit, c) EXCEPT
                    !.lastOutcome = "failed", !.fails = @ + 1,
                    !.everFailed = TRUE, !.completed = @ + 1,
                    !.initial = IF c.id = 0 THEN "failed" ELSE @]
     /\ recallCache' = IF c.shouldRefreshRecall
                       THEN [recallCache EXCEPT !.lastUpdate = now]
                       ELSE recallCache
     /\ AfterCycle(c)

(* A catch block that ends the process. *)
RefreshFailedExits(c, errorMessage) ==
  LET errorComment == ErrorComment(errorMessage, metricsCache.lastUpdate)
  IN /\ lastScrape' = [lastScrape EXCEPT !.success = FALSE]
     /\ metricsCache' =
          [metricsCache EXCEPT !.error = errorMessage,
                               !.data = StaleData(errorComment, @)]
     /\ cycles' = {}
     /\ audit' = [Ended(audit, c) EXCEPT
                    !.lastOutcome = "failed", !.fails = @ + 1,
                    !.everFailed = TRUE, !.completed = @ + 1,
                    !.initial = IF c.id = 0 THEN "failed" ELSE @]
     /\ UNCHANGED recallCache
     /\ pc' = "exited"
     /\ timer' = [timer EXCEPT !.armed = FALSE]

(* The catch block of refreshMetrics. *)
RefreshFailed(c, errorMessage) ==
  LET errorComment == ErrorComment(errorMessage, metricsCache.lastUpdate)
  IN /\ lastScrape' = [lastScrape EXCEPT !.success = FALSE]
     /\ metricsCache' =
          [metricsCache EXCEPT !.error = errorMessage,
                               !.data = StaleData(errorComment, @)]
     /\ cycles' = Others(c)
     /\ audit' = [Ended(audit, c) EXCEPT
                    !.lastOutcome = "failed", !.fails = @ + 1,
                    !.everFailed = TRUE, !.completed = @ + 1,
                    !.initial = IF c.id = 0 THEN "failed" ELSE @]
     /\ UNCHANGED recallCache
     /\ AfterCycle(c)

(* --------------------------------------------- fetchNamespacesWithMetadata *)

(* A suspended cycle that has already touched the cache. *)
AwaitMarksUpdate(c, next) ==
  /\ cycles' = Others(c) \cup {next}
  /\ metricsCache' = [metricsCache EXCEPT !.lastUpdate = now + 1]
  /\ UNCHANGED <<recallCache, lastScrape, pc, timer>>

Await(c, next) ==
  /\ cycles' = Others(c) \cup {next}
  /\ UNCHANGED <<metricsCache, recallCache, lastScrape, pc, timer>>

(* The fetch is done with region c.ri, and acc is what it has collected:   *)
(* the listing call of the next region is issued, or the fetch returns.    *)
RegionDone(c, acc, aud) ==
  IF c.ri < Len(TargetRegions(options))
  THEN /\ Await(c, [c EXCEPT !.ri = @ + 1, !.stage = "list", !.page = <<>>,
                             !.metadataList = <<>>, !.acc = acc])
       /\ audit' = aud
  ELSE FetchReturned(c, acc, aud)

(* Snapshots of a region that are put in front of the earlier ones. *)
CombinePrepends(c, metadataList, recallList, aud) ==
  RegionDone(c,
    [i \in DOMAIN c.page |->
       [namespace |-> c.page[i], metadata |-> metadataList[i],
        recall |-> recallList[i], region |-> RegionOf(options, c.ri)]]
      \o c.acc, aud)

(* Both Promise.all of a region have resolved: its snapshots are built. *)
Combine(c, metadataList, recallList, aud) ==
  RegionDone(c, c.acc \o
    [i \in DOMAIN c.page |->
       [namespace |-> c.page[i], metadata |-> metadataList[i],
        recall |-> recallList[i], region |-> RegionOf(options, c.ri)]], aud)

Nulls(page) == [i \in DOMAIN page |-> Null]

(* await client.namespaces() resolves with the region's page. *)
ListOk(c) ==
  /\ Running /\ c \in cycles /\ c.stage = "list"
  /\ LET r == getTurbopufferClient(RegionOf(options, c.ri))
         page == [i \in DOMAIN env.world[r] |-> [id |-> env.world[r][i].id]]
     IN IF page # <<>>
        THEN /\ Await(c, [c EXCEPT !.stage = "metadata", !.page = page])
             /\ audit' = Listed(audit, c)
        ELSE IF options.allRegions
             THEN RegionDone(c, c.acc, Listed(audit, c))
             ELSE Combine(c, <<>>, <<>>, Listed(audit, c))
  /\ response' = NoResponse
  /\ UNCHANGED <<deleteCmd, options, forceExit, env, now, started>>

(* A listing failure that is thrown in all-regions mode as well. *)
ListFailThrows(c, errorMessage) ==
  /\ Running /\ c \in cycles /\ c.stage = "list"
  /\ "list" \in env.faults /\ env.listFaults # <<0>>
  /\ env' = IF env.listFaults = <<>> THEN env
            ELSE [env EXCEPT !.listFaults = <<@[1] - 1>>]
  /\ RefreshFailed(c, errorMessage)
  /\ response' = NoResponse
  /\ UNCHANGED <<deleteCmd, options, forceExit, now, started>>

(* A listing failure that ends the loop over the regions. *)
ListFailStops(c, errorMessage) ==
  /\ Running /\ c \in cycles /\ c.stage = "list"
  /\ "list" \in env.faults /\ env.listFaults # <<0>>
  /\ env' = IF env.listFaults = <<>> THEN env
            ELSE [env EXCEPT !.listFaults = <<@[1] - 1>>]
  /\ IF options.allRegions
     THEN FetchReturned(c, c.acc,
            Skipped(audit, c, getTurbopufferClient(RegionOf(options, c.ri))))
     ELSE RefreshFailed(c, errorMessage)
  /\ response' = NoResponse
  /\ UNCHANGED <<deleteCmd, options, forceExit, now, started>>

(* await client.namespaces() rejects: skipped in all-regions mode, thrown  *)
(* to refreshMetrics in single-region mode.                                *)
ListFail(c, errorMessage) ==
  /\ Running /\ c \in cycles /\ c.stage = "list"
  /\ "list" \in env.faults /\ env.listFaults # <<0>>
  /\ env' = IF env.listFaults = <<>> THEN env
            ELSE [env EXCEPT !.listFaults = <<@[1] - 1>>]
  /\ IF options.allRegions
     THEN RegionDone(c, c.acc,
            Skipped(audit, c, getTurbopufferClient(RegionOf(options, c.ri))))
     ELSE RefreshFailed(c, errorMessage)
  /\ response' = NoResponse
  /\ UNCHANGED <<deleteCmd, options, forceExit, now, started>>

(* The outcomes of the metadata calls of a page: the metadata, or null. *)
MetadataOutcomes(r, page) ==
  LET ok == [i \in DOMAIN page |-> env.world[r][i].metadata]
  IN IF "metadata" \in env.faults
     THEN { [i \in DOMAIN page |-> IF i \in failed THEN Null ELSE ok[i]] :
              failed \in SUBSET DOMAIN page }
     ELSE {ok}

(* A metadata call whose failure rejects the Promise.all. *)
MetadataDoneRejects(c, metadataList) ==
  /\ Running /\ c \in cycles /\ c.stage = "metadata"
  /\ metadataList \in
       MetadataOutcomes(getTurbopufferClient(RegionOf(options, c.ri)), c.page)
  /\ IF \E i \in DOMAIN metadataList : metadataList[i] = Null
     THEN RefreshFailed(c, "fetch failed")
     ELSE IF c.shouldRefreshRecall
     THEN /\ Await(c, [c EXCEPT !.stage = "recall",
                                !.metadataList = metadataList])
          /\ audit' = [audit EXCEPT !.recallIssued = @ \cup
                         {<<c.page[i].id, RegionOf(options, c.ri)>> :
                            i \in DOMAIN c.page}]
     ELSE Combine(c, metadataList, Nulls(c.page), audit)
  /\ response' = NoResponse
  /\ UNCHANGED <<deleteCmd, options, forceExit, env, now, started>>

(* await Promise.all(metadataPromises) resolves. *)
MetadataDone(c, metadataList) ==
  /\ Running /\ c \in cycles /\ c.stage = "metadata"
  /\ metadataList \in
       MetadataOutcomes(getTurbopufferClient(RegionOf(options, c.ri)), c.page)
  /\ IF c.shouldRefreshRecall
     THEN /\ Await(c, [c EXCEPT !.stage = "recall",
                                !.metadataList = metadataList])
          /\ audit' = [NoMetadata(audit, c, metadataList) EXCEPT
                         !.recallIssued = @ \cup
                           {<<c.page[i].id, RegionOf(options, c.ri)>> :
                              i \in DOMAIN c.page}]
     ELSE Combine(c, metadataList, Nulls(c.page),
                  NoMetadata(audit, c, metadataList))
  /\ response' = NoResponse
  /\ UNCHANGED <<deleteCmd, options, forceExit, env, now, started>>

(* fetchRecallData: the recall of one namespace, or null when it failed. *)
RecallOutcomes(page) ==
  [DOMAIN page ->
     (IF "recall" \in env.faults THEN {Null} ELSE {}) \cup env.recallVals]

(* await Promise.all(recallPromises) resolves. *)
RecallDone(c, recallList) ==
  /\ Running /\ c \in cycles /\ c.stage = "recall"
  /\ recallList \in RecallOutcomes(c.page)
  /\ Combine(c, c.metadataList, recallList,
       [NoRecall(audit, c, recallList) EXCEPT !.recallReturned = @ \cup
          {<<c.page[i].id, RegionOf(options, c.ri)>> :
             i \in {j \in DOMAIN c.page : recallList[j] # Null}}])
  /\ response' = NoResponse
  /\ UNCHANGED <<deleteCmd, options, forceExit, env, now, started>>

(* --------------------------------------------------- startHttpServer *)

(* A start that does not await the initial refreshMetrics. *)
StartHttpServerNoAwait ==
  /\ pc = "start"
  /\ pc' = "binding"
  /\ cycles' = {NewCycle(0)}
  /\ started' = 1
  /\ timer' = [armed |-> TRUE, next |-> now + options.interval * 1000]
  /\ audit' = [audit EXCEPT !.sinceRecall = @ + 1]
  /\ response' = NoResponse
  /\ UNCHANGED <<deleteCmd, options, forceExit, env, now, metricsCache, recallCache, lastScrape>>

(* startHttpServer is called: the initial refreshMetrics is awaited. *)
StartHttpServer ==
  /\ pc = "start"
  /\ pc' = "initial"
  /\ cycles' = {NewCycle(0)}
  /\ started' = 1
  /\ audit' = [audit EXCEPT !.sinceRecall = @ + 1]
  /\ response' = NoResponse
  /\ UNCHANGED <<deleteCmd, options, forceExit, env, now, metricsCache, recallCache,
                 lastScrape, timer>>

(* The setInterval callback: it calls refreshMetrics whatever the earlier  *)
(* calls are doing.                                                        *)
Tick ==
  /\ pc \in {"binding", "listening"}
  /\ timer.armed /\ now = timer.next
  /\ Cardinality(cycles) < env.maxInFlight
  /\ cycles' = cycles \cup {NewCycle(started)}
  /\ started' = started + 1
  /\ timer' = [timer EXCEPT !.next = @ + options.interval * 1000]
  /\ audit' = [audit EXCEPT !.sinceRecall = @ + 1]
  /\ response' = NoResponse
  /\ UNCHANGED <<deleteCmd, options, forceExit, env, now, pc, metricsCache,
                 recallCache, lastScrape>>

(* The callback of server.listen. *)
ListenOk ==
  /\ pc = "binding"
  /\ pc' = "listening"
  /\ response' = NoResponse
  /\ UNCHANGED <<deleteCmd, options, forceExit, env, now, metricsCache, recallCache,
                 lastScrape, cycles, started, timer, audit>>

(* server.on('error'): process.exit(1). *)
ListenError ==
  /\ pc = "binding"
  /\ pc' = "exited"
  /\ cycles' = {}
  /\ timer' = [timer EXCEPT !.armed = FALSE]
  /\ response' = NoResponse
  /\ UNCHANGED <<deleteCmd, options, forceExit, env, now, metricsCache, recallCache,
                 lastScrape, started, audit>>

(* Time passes; the timer and the timeout fire on time, and while the      *)
(* timer runs a fetch ends before as many cycles as the run allows are in  *)
(* flight.                                                                 *)
Elapse(d) ==
  /\ Running
  /\ now + d <= env.horizon
  /\ timer.armed => now + d <= timer.next
  /\ forceExit # <<>> => now + d <= forceExit[1]
  /\ pc # "closing" =>
       \A c \in cycles :
         now + d - c.startTime
           <= (env.maxInFlight - 1) * options.interval * 1000
  /\ now' = now + d
  /\ response' = NoResponse
  /\ UNCHANGED <<deleteCmd, options, forceExit, env, pc, metricsCache, recallCache,
                 lastScrape, cycles, started, timer, audit>>

(* ------------------------------------------------------ HTTP handlers *)

(* A health check that never reports the error. *)
HealthErrorNever(error) == <<>>

(* metricsCache.error || null: <<>> is null. *)
HealthError(error) == IF Falsy(error) THEN <<>> ELSE <<error>>

(* An unknown path answered with the default status. *)
NotFoundDefaultStatus ==
  [status |-> 200, contentType |-> "text/plain",
   body |-> [plain |-> "Not Found"]]

NotFound ==
  [status |-> 404, contentType |-> "text/plain",
   body |-> [plain |-> "Not Found"]]

Urls == {"/metrics", "/health", "/", "/metrics?x=1", "/other", ""}

Handle(reqUrl) ==
  LET url == IF reqUrl = "" THEN "/" ELSE reqUrl
  IN IF url = "/metrics"
     THEN [status |-> 200, contentType |-> "text/plain; charset=utf-8",
           body |-> [text |-> metricsCache.data]]
     ELSE IF url = "/health"
     THEN [status |-> 200, contentType |-> "application/json",
           body |-> [json |->
                      [status |-> "ok",
                       lastUpdate |-> toISOString(metricsCache.lastUpdate),
                       error |-> HealthError(metricsCache.error)]]]
     ELSE IF url = "/"
     THEN [status |-> 200, contentType |-> "text/html; charset=utf-8",
           body |-> [html |->
                      [lastUpdate |-> toISOString(metricsCache.lastUpdate),
                       interval |-> options.interval,
                       regionMode |->
                         IF options.allRegions THEN "All regions"
                         ELSE IF Falsy(options.region) THEN "Default"
                         ELSE options.region,
                       recall |->
                         IF options.includeRecall
                         THEN <<options.recallInterval>> ELSE <<>>,
                       port |-> options.port]]]
     ELSE NotFound

Request(reqUrl) ==
  /\ pc = "listening"
  /\ response' = [url |-> reqUrl] @@ Handle(reqUrl)
  /\ UNCHANGED <<deleteCmd, options, forceExit, env, now, pc, metricsCache,
                 recallCache, lastScrape, cycles, started, timer, audit>>

(* ------------------------------------------------------------ shutdown *)

(* A shutdown that leaves the setInterval timer running. *)
ShutdownKeepsTimer ==
  /\ pc \in {"binding", "listening", "closing"}
  /\ now + 5000 <= env.horizon
  /\ pc' = "closing"
  /\ forceExit' = IF forceExit = <<>> THEN <<now + 5000>> ELSE forceExit
  /\ response' = NoResponse
  /\ UNCHANGED <<deleteCmd, options, env, now, metricsCache, recallCache,
                 lastScrape, cycles, started, timer, audit>>

(* shutdown(signal), the handler of SIGTERM and SIGINT from the moment     *)
(* startHttpServer has installed it: clearInterval, server.close, and the  *)
(* setTimeout of the forced exit.  A further signal runs it again: its     *)
(* timeout is later than the one already pending.  A signal arrives only   *)
(* while the run has five seconds left.                                    *)
Shutdown ==
  /\ pc \in {"binding", "listening", "closing"}
  /\ now + 5000 <= env.horizon
  /\ pc' = "closing"
  /\ timer' = [timer EXCEPT !.armed = FALSE]
  /\ forceExit' = IF forceExit = <<>> THEN <<now + 5000>> ELSE forceExit
  /\ response' = NoResponse
  /\ UNCHANGED <<deleteCmd, options, env, now, metricsCache, recallCache,
                 lastScrape, cycles, started, audit>>

(* A signal before the handlers are installed, during the initial         *)
(* refreshMetrics: the process is terminated by the signal.                *)
SignalBeforeHandlers ==
  /\ pc \in {"start", "initial"}
  /\ pc' = "killed"
  /\ cycles' = {}
  /\ response' = NoResponse
  /\ UNCHANGED <<deleteCmd, options, env, now, metricsCache, recallCache,
                 lastScrape, started, timer, forceExit, audit>>

(* The callback of server.close: process.exit(0). *)
ServerClosed ==
  /\ pc = "closing"
  /\ pc' = "exited0"
  /\ cycles' = {}
  /\ response' = NoResponse
  /\ UNCHANGED <<deleteCmd, options, env, now, metricsCache, recallCache,
                 lastScrape, started, timer, forceExit, audit>>

(* The setTimeout of shutdown fires: process.exit(1). *)
ForcedShutdown ==
  /\ pc = "closing"
  /\ now = forceExit[1]
  /\ pc' = "exited"
  /\ cycles' = {}
  /\ response' = NoResponse
  /\ UNCHANGED <<deleteCmd, options, env, now, metricsCache, recallCache,
                 lastScrape, started, timer, forceExit, audit>>

(* A request on a connection that was open when server.close was called. *)
RequestWhileClosing(reqUrl) ==
  /\ pc = "closing"
  /\ response' = [url |-> reqUrl] @@ Handle(reqUrl)
  /\ UNCHANGED <<deleteCmd, options, env, now, pc, metricsCache, recallCache,
                 lastScrape, cycles, started, timer, forceExit, audit>>

(* ----------------------------------------------- createExportCommand *)

(* A command-line value is a sequence of characters. *)
DigitValue ==
  ("0" :> 0) @@ ("1" :> 1) @@ ("2" :> 2) @@ ("3" :> 3) @@ ("4" :> 4) @@
  ("5" :> 5) @@ ("6" :> 6) @@ ("7" :> 7) @@ ("8" :> 8) @@ ("9" :> 9)

RECURSIVE TrimStart(_)
TrimStart(str) ==
  IF str # <<>> /\ Head(str) = " " THEN TrimStart(Tail(str)) ELSE str

RECURSIVE LeadingDigits(_)
LeadingDigits(str) ==
  IF str = <<>> \/ Head(str) \notin DOMAIN DigitValue THEN <<>>
  ELSE <<Head(str)>> \o LeadingDigits(Tail(str))

RECURSIVE Decimal(_)
Decimal(digits) ==
  IF digits = <<>> THEN 0
  ELSE Decimal(SubSeq(digits, 1, Len(digits) - 1)) * 10
         + DigitValue[digits[Len(digits)]]

(* parseInt(str, 10): leading blanks are skipped, a sign is read, then the *)
(* longest run of digits; what follows is ignored.  <<>> is NaN.           *)
parseInt(str) ==
  LET s == TrimStart(str)
      signed == s # <<>> /\ Head(s) \in {"+", "-"}
      digits == LeadingDigits(IF signed THEN Tail(s) ELSE s)
  IN IF digits = <<>> THEN <<>>
     ELSE IF signed /\ Head(s) = "-" THEN << 0 - Decimal(digits) >>
     ELSE << Decimal(digits) >>

isNaN(n) == n = <<>>

(* A validation that forgets that --region and --all-regions exclude each  *)
(* other.                                                                  *)
InvalidOptionsNoExclusion(port, interval, timeout, recallInterval, opts) ==
  \/ isNaN(port) \/ port[1] < 1 \/ port[1] > 65535
  \/ isNaN(interval) \/ interval[1] < 1
  \/ isNaN(timeout) \/ timeout[1] < 1
  \/ isNaN(recallInterval) \/ recallInterval[1] < 1

(* The checks of the action, each of which ends in process.exit(1). *)
InvalidOptions(port, interval, timeout, recallInterval, opts) ==
  \/ isNaN(port) \/ port[1] < 1 \/ port[1] > 65535
  \/ isNaN(interval) \/ interval[1] < 1
  \/ isNaN(timeout) \/ timeout[1] < 1
  \/ isNaN(recallInterval) \/ recallInterval[1] < 1
  \/ opts.allRegions /\ ~Falsy(opts.region)

(* The action of the export command: the options are parsed and checked,   *)
(* and startHttpServer is called with the parsed ones.                     *)
ExportAction ==
  /\ pc = "command"
  /\ LET port == parseInt(options.port)
         interval == parseInt(options.interval)
         timeout == parseInt(options.timeout)
         recallInterval == parseInt(options.recallInterval)
     IN IF InvalidOptions(port, interval, timeout, recallInterval, options)
        THEN pc' = "exited" /\ UNCHANGED options
        ELSE /\ pc' = "start"
             /\ options' =
                  [port |-> port[1], region |-> options.region,
                   allRegions |-> options.allRegions,
                   interval |-> interval[1], timeout |-> timeout[1],
                   includeRecall |-> options.includeRecall,
                   recallInterval |-> recallInterval[1]]
  /\ response' = NoResponse
  /\ UNCHANGED <<deleteCmd, env, now, metricsCache, recallCache, lastScrape,
                 cycles, started, timer, forceExit, audit>>

(* ----------------------------------------------- createDeleteCommand *)

(* The ids of the namespaces, the option values and the lines the user     *)
(* types are sequences of characters.  An option that was not given is     *)
(* <<>>, one that was given is <<its value>>.                              *)
LowerCase ==
  ("A" :> "a") @@ ("B" :> "b") @@ ("C" :> "c") @@ ("D" :> "d") @@
  ("E" :> "e") @@ ("F" :> "f") @@ ("G" :> "g") @@ ("H" :> "h") @@
  ("I" :> "i") @@ ("J" :> "j") @@ ("K" :> "k") @@ ("L" :> "l") @@
  ("M" :> "m") @@ ("N" :> "n") @@ ("O" :> "o") @@ ("P" :> "p") @@
  ("Q" :> "q") @@ ("R" :> "r") @@ ("S" :> "s") @@ ("T" :> "t") @@
  ("U" :> "u") @@ ("V" :> "v") @@ ("W" :> "w") @@ ("X" :> "x") @@
  ("Y" :> "y") @@ ("Z" :> "z")

toLowerCase(str) ==
  [i \in DOMAIN str |->
     IF str[i] \in DOMAIN LowerCase THEN LowerCase[str[i]] ELSE str[i]]

RECURSIVE TrimEnd(_)
TrimEnd(str) ==
  IF str # <<>> /\ str[Len(str)] = " "
  THEN TrimEnd(SubSeq(str, 1, Len(str) - 1))
  ELSE str

trim(str) == TrimEnd(TrimStart(str))

startsWith(str, searchString) ==
  /\ Len(searchString) <= Len(str)
  /\ SubSeq(str, 1, Len(searchString)) = searchString

(* Boolean(value) for the value of a text option: undefined and the empty  *)
(* string are false.                                                       *)
Boolean(option) == option # <<>> /\ option[1] # <<>>

(* [options.namespace, options.all, options.prefix].filter(Boolean).length *)
optionsCount(opts) ==
  (IF Boolean(opts.namespace) THEN 1 ELSE 0)
    + (IF opts.all THEN 1 ELSE 0)
    + (IF Boolean(opts.prefix) THEN 1 ELSE 0)

(* The branch the action takes once exactly one option counts. *)
Mode(opts) ==
  IF Boolean(opts.namespace) THEN "namespace"
  ELSE IF opts.all THEN "all"
  ELSE "prefix"

(* A check of the answers that ignores the case of yolo as well. *)
ConfirmedAnyCase(mode, answer, opts) ==
  CASE mode = "namespace" ->
         toLowerCase(answer) \in {<<"y">>, <<"y", "e", "s">>}
    [] mode = "all" -> toLowerCase(answer) = <<"y", "o", "l", "o">>
    [] mode = "prefix" -> toLowerCase(answer) = toLowerCase(opts.prefix[1])

(* The test each branch makes of the answer: when it fails the command     *)
(* says that nothing was deleted and exits with 0.                         *)
Confirmed(mode, answer, opts) ==
  CASE mode = "namespace" ->
         toLowerCase(answer) \in {<<"y">>, <<"y", "e", "s">>}
    [] mode = "all" -> answer = <<"y", "o", "l", "o">>
    [] mode = "prefix" -> toLowerCase(answer) = toLowerCase(opts.prefix[1])

(* The namespaces a listing selects: all of them, or the ones whose id     *)
(* starts with the prefix, the case of the letters ignored.                *)
Matching(mode, page, opts) ==
  IF mode = "all" THEN page
  ELSE LET Matches(id) ==
             startsWith(toLowerCase(id), toLowerCase(opts.prefix[1]))
       IN SelectSeq(page, Matches)

(* No delete command runs. *)
NoDelete ==
  [pc |-> "none",
   options |-> [namespace |-> <<>>, all |-> FALSE, prefix |-> <<>>],
   page |-> <<>>, namespaces |-> <<>>, typed |-> <<>>, answer |-> <<>>,
   calls |-> <<>>, successCount |-> 0, failCount |-> 0]

(* The action of the delete command is called with the options opts.       *)
(* page is what client.namespaces() gave, namespaces the ones to delete,   *)
(* typed the line the user typed (<<>> before that) and answer what prompt *)
(* made of it; calls are the deleteAll calls made so far, in order, each   *)
(* with its outcome.                                                       *)
DeleteStart(opts) == [NoDelete EXCEPT !.pc = "action", !.options = opts]

exporterVars ==
  <<options, env, now, pc, metricsCache, recallCache,
    lastScrape, cycles, started, timer, forceExit, response, audit>>

(* The validation: exactly one of the three options, else exit(1).  With   *)
(* -n the prompt comes next, with --all and --prefix the listing.          *)
DeleteAction ==
  /\ deleteCmd.pc = "action"
  /\ LET opts == deleteCmd.options
     IN IF optionsCount(opts) = 0 \/ optionsCount(opts) > 1
        THEN deleteCmd' = [deleteCmd EXCEPT !.pc = "exited1"]
        ELSE IF Mode(opts) = "namespace"
        THEN deleteCmd' = [deleteCmd EXCEPT !.pc = "prompt",
                                            !.namespaces = <<opts.namespace[1]>>]
        ELSE deleteCmd' = [deleteCmd EXCEPT !.pc = "listing"]
  /\ UNCHANGED exporterVars

(* await client.namespaces() resolves with page: nothing to delete ends    *)
(* the command with exit(0), else the namespaces are shown and the prompt  *)
(* comes next.                                                             *)
NamespacesListed(page) ==
  /\ deleteCmd.pc = "listing"
  /\ LET opts == deleteCmd.options
         selected == Matching(Mode(opts), page, opts)
     IN deleteCmd' =
          [deleteCmd EXCEPT !.page = page,
                            !.namespaces = selected,
                            !.pc = IF selected = <<>> THEN "exited0"
                                   ELSE "prompt"]
  /\ UNCHANGED exporterVars

(* await client.namespaces() rejects: the outer catch, exit(1). *)
NamespacesFailed ==
  /\ deleteCmd.pc = "listing"
  /\ deleteCmd' = [deleteCmd EXCEPT !.pc = "exited1"]
  /\ UNCHANGED exporterVars

(* await prompt(...) resolves: the user typed line, and the answer is the  *)
(* line trimmed.  An answer that does not confirm ends the command with    *)
(* exit(0).                                                                *)
prompt(line) ==
  /\ deleteCmd.pc = "prompt"
  /\ LET opts == deleteCmd.options
         answer == trim(line)
     IN deleteCmd' =
          [deleteCmd EXCEPT !.typed = <<line>>,
                            !.answer = answer,
                            !.pc = IF Confirmed(Mode(opts), answer, opts)
                                   THEN "deleting" ELSE "exited0"]
  /\ UNCHANGED exporterVars

(* await client.namespace(id).deleteAll(...) returns for the next          *)
(* namespace.  With -n a failure is caught by the outer catch, exit(1);    *)
(* in the two loops it is caught per namespace and counted, and the loop   *)
(* goes on.                                                                *)
deleteAll(ok) ==
  /\ deleteCmd.pc = "deleting"
  /\ LET opts == deleteCmd.options
         i == Len(deleteCmd.calls) + 1
         ns == deleteCmd.namespaces[i]
         last == i = Len(deleteCmd.namespaces)
         called == Append(deleteCmd.calls, [id |-> ns, ok |-> ok])
     IN IF Mode(opts) = "namespace"
        THEN deleteCmd' =
               [deleteCmd EXCEPT !.calls = called,
                                 !.pc = IF ok THEN "done" ELSE "exited1"]
        ELSE deleteCmd' =
               [deleteCmd EXCEPT
                  !.calls = called,
                  !.successCount = IF ok THEN @ + 1 ELSE @,
                  !.failCount = IF ok THEN @ ELSE @ + 1,
                  !.pc = IF last THEN "done" ELSE "deleting"]
  /\ UNCHANGED exporterVars

(* ------------------------------------------------------ specification *)

Options(region, allRegions, interval, includeRecall, recallInterval) ==
  [port |-> 9876, region |-> region, allRegions |-> allRegions,
   interval |-> interval, timeout |-> 30, includeRecall |-> includeRecall,
   recallInterval |-> recallInterval]

(* succeeded, everFailed: some cycle has; lastOutcome, initial: how the    *)
(* latest completed cycle and the initial one ended; lastGood: the text    *)
(* of the latest successful cycle; fails: the failures since; completed:   *)
(* the cycles that have ended; lastRefreshedRecall: the latest successful  *)
(* cycle replaced the recall cache; sinceRecall: the cycles started since  *)
(* it was replaced; recallIssued, recallReturned: the (id, region) a       *)
(* recall call was made for, and returned a value for; initialRecall: the  *)
(* recall cache as the initial cycle left it; listed, skipped: the cycles  *)
(* in flight that have had a listing call succeed, and their regions with  *)
(* namespaces whose listing call failed; lastSkipped, lastOutage: those    *)
(* regions of the cycle that ended last, and whether none of its listing   *)
(* calls succeeded; noMetadata, noRecall, lastNoMetadata, lastNoRecall:    *)
(* the same for the (id, region) whose metadata or recall call failed;     *)
(* computed: the recall value per (id, region) of the latest fetch that    *)
(* refreshed recall; everComputed: the latest value per (id, region) of    *)
(* all such fetches; fetched: the (id, region) of the latest fetch.        *)
InitAudit ==
  [succeeded |-> FALSE, everFailed |-> FALSE, lastOutcome |-> "none",
   initial |-> "none", lastGood |-> <<>>, fails |-> 0, completed |-> 0,
   lastRefreshedRecall |-> FALSE, sinceRecall |-> 0,
   recallIssued |-> {}, recallReturned |-> {},
   initialRecall |-> InitRecallCache,
   listed |-> {}, skipped |-> {}, lastSkipped |-> {}, lastOutage |-> FALSE,
   noMetadata |-> {}, noRecall |-> {},
   lastNoMetadata |-> {}, lastNoRecall |-> {},
   computed |-> <<>>, everComputed |-> <<>>, fetched |-> {}]

InitProcess(opts, e, at) ==
  /\ options = opts
  /\ env = e
  /\ now = ProcessStart
  /\ pc = at
  /\ metricsCache = InitMetricsCache
  /\ recallCache = InitRecallCache
  /\ lastScrape = [success |-> TRUE, duration |-> Num(0)]
  /\ cycles = {}
  /\ started = 0
  /\ timer = [armed |-> FALSE, next |-> 0]
  /\ forceExit = <<>>
  /\ response = NoResponse
  /\ audit = InitAudit

(* The process runs the export command, not the delete command. *)
InitAt(opts, e, at) == InitProcess(opts, e, at) /\ deleteCmd = NoDelete

(* The state when startHttpServer is called. *)
InitWith(opts, e) == InitAt(opts, e, "start")

Fetching ==
  \E c \in cycles :
    \/ ListOk(c)
    \/ \E e \in ErrorMessages : ListFail(c, e)
    \/ \E ml \in MetadataOutcomes(
                   getTurbopufferClient(RegionOf(options, c.ri)), c.page) :
         MetadataDone(c, ml)
    \/ \E rl \in RecallOutcomes(c.page) : RecallDone(c, rl)

(* The exporter without its HTTP clients. *)
NextCycles ==
  \/ StartHttpServer
  \/ Fetching
  \/ Tick
  \/ \E d \in Delays(options) : Elapse(d)

Next ==
  \/ NextCycles
  \/ ListenOk
  \/ ListenError
  \/ \E u \in Urls : Request(u)

(* The whole exporter, over a region with one namespace. *)
Init ==
  \E ir \in BOOLEAN :
    InitWith(Options("gcp-us-central1", FALSE, 1, ir, 2),
             Env(SmallWorld, {"list", "recall"}, {Recall(950)},
                 Horizon(1, MaxIntervals), MaxInFlight, <<>>))

Spec == Init /\ [][Next]_vars

(* The refresh cycles alone, over a region with two namespaces. *)
InitSingle ==
  \E r \in {Undefined, "gcp-us-central1"}, ir \in BOOLEAN :
    InitWith(Options(r, FALSE, 1, ir, 2),
             Env(World, {"list", "recall"}, {Recall(950)},
                 Horizon(1, MaxIntervals), MaxInFlight, <<>>))

(* The refresh cycles in all-regions mode, over a shorter run. *)
InitRegions ==
  \E ir \in BOOLEAN :
    InitWith(Options(Undefined, TRUE, 1, ir, 2),
             Env(World, {"list", "recall"}, {Recall(950)},
                 Horizon(1, RegionsMaxIntervals), RegionsMaxInFlight, <<>>))

InitCycles == InitSingle \/ InitRegions

(* The refresh cycles in all-regions mode alone. *)
SpecRegions == InitRegions /\ [][NextCycles]_vars

SpecCycles == InitCycles /\ [][NextCycles]_vars

(* The refresh cycles with --interval 60 --recall-interval 3600, for a    *)
(* little more than an hour.                                               *)
InitRecall ==
  \E ir \in BOOLEAN :
    InitWith(Options("gcp-us-central1", FALSE, 60, ir, 3600),
             Env(SmallWorld, {"list"}, {Recall(950)},
                 Horizon(60, RecallMaxIntervals), RecallMaxInFlight,
                 <<RecallMaxListFaults>>))

SpecRecall == InitRecall /\ [][NextCycles]_vars

(* The refresh cycles over a region whose listing call works and whose     *)
(* metadata and recall calls may fail.                                     *)
InitPartial ==
  \E ir \in BOOLEAN :
    InitWith(Options("gcp-us-central1", FALSE, 1, ir, 2),
             Env(World, {"metadata", "recall"}, {Recall(950)},
                 Horizon(1, PartialMaxIntervals), PartialMaxInFlight, <<>>))

SpecPartial == InitPartial /\ [][NextCycles]_vars

(* The namespace ids of the runs that are about label escaping: ordinary   *)
(* characters, double quotes, backslashes and newlines.                    *)
LabelValues ==
  UNION { [1..n -> {"a", "n", DQ, BS, NL}] : n \in 0..MaxLabelLen }

LabelWorld(id) ==
  [r \in Range(TURBOPUFFER_REGIONS) |->
     IF r = "gcp-us-central1"
     THEN <<[id |-> id, metadata |-> Metadata(5, 512, "updating", <<256>>)]>>
     ELSE <<>>]

(* The refresh cycles over a region whose one namespace has any such id. *)
InitEscape ==
  \E id \in LabelValues :
    InitWith(Options("gcp-us-central1", FALSE, 1, FALSE, 2),
             Env(LabelWorld(id), {}, {Recall(950)},
                 Horizon(1, EscapeMaxIntervals), EscapeMaxInFlight, <<>>))

SpecEscape == InitEscape /\ [][NextCycles]_vars

(* The whole exporter with --interval 2 --timeout 1. *)
InitTimeout ==
  InitWith([Options("gcp-us-central1", FALSE, 2, FALSE, 2)
              EXCEPT !.timeout = 1],
           Env(SmallWorld, {"list"}, {Recall(950)},
               Horizon(2, MaxIntervals), MaxInFlight, <<>>))

SpecTimeout == InitTimeout /\ [][Next]_vars

(* The refresh cycles in both region modes, over a region with one         *)
(* namespace, where every kind of call may fail.                           *)
InitFaults ==
  \E ar \in BOOLEAN, ir \in BOOLEAN :
    InitWith(Options(IF ar THEN Undefined ELSE "gcp-us-central1", ar, 1, ir, 2),
             Env(SmallWorld, Faults, {Recall(950)},
                 Horizon(1, RegionsMaxIntervals), RegionsMaxInFlight, <<>>))

SpecFaults == InitFaults /\ [][NextCycles]_vars

(* What the command line may hold for the four numbers. *)
PortArgs == {<<"0">>, <<"1">>, <<"6","5","5","3","5">>,
             <<"6","5","5","3","6">>, <<"x">>}
IntervalArgs == {<<"0">>, <<"1">>, <<"-","1">>, <<"2","s">>, <<>>}
TimeoutArgs == {<<"0">>, <<" ","3","0">>, <<"x">>}
RecallIntervalArgs == {<<"0">>, <<"2">>, <<"n","o">>}

(* The export command, from its command line on. *)
InitCli ==
  \E p \in PortArgs, i \in IntervalArgs, t \in TimeoutArgs,
     ri \in RecallIntervalArgs,
     r \in {Undefined, "", "gcp-us-central1"}, ar \in BOOLEAN :
    LET argv == [port |-> p, region |-> r, allRegions |-> ar,
                 interval |-> i, timeout |-> t, includeRecall |-> FALSE,
                 recallInterval |-> ri]
        seconds == IF isNaN(parseInt(i)) \/ parseInt(i)[1] < 1 THEN 0
                   ELSE parseInt(i)[1]
    IN InitAt(argv,
              [argv |-> argv] @@
              Env(SmallWorld, {}, {Recall(950)},
                  Horizon(seconds, CliMaxIntervals), CliMaxInFlight, <<>>),
              "command")

(* startHttpServer is called by the action, so nothing of the exporter    *)
(* runs before the action has parsed the options, or after the exit.       *)
NextCli ==
  \/ ExportAction
  \/ pc \notin {"command", "exited"} /\ Next

SpecCli == InitCli /\ [][NextCli]_vars

(* The whole exporter with its signal handlers and --interval 5, the      *)
(* length of the grace period of a shutdown.                               *)
InitShutdown ==
  \E ir \in BOOLEAN :
    InitWith(Options("gcp-us-central1", FALSE, 5, ir, 10),
             Env(SmallWorld, {"list"}, {Recall(950)},
                 Horizon(5, ShutdownMaxIntervals), ShutdownMaxInFlight,
                 <<ShutdownMaxListFaults>>))

NextShutdown ==
  \/ Next
  \/ Shutdown
  \/ SignalBeforeHandlers
  \/ ServerClosed
  \/ ForcedShutdown
  \/ \E u \in Urls : RequestWhileClosing(u)

SpecShutdown == InitShutdown /\ [][NextShutdown]_vars

(* Time passes, and a timeout that is due fires. *)
FairShutdown ==
  /\ SpecShutdown
  /\ WF_vars(\E d \in Delays(options) : Elapse(d))
  /\ WF_vars(ForcedShutdown)

(* Two regions that each hold a namespace with the id a. *)
TwinWorld ==
  [r \in Range(TURBOPUFFER_REGIONS) |->
     CASE r = "gcp-us-central1" -> <<NsA>>
       [] r = "aws-us-east-1" -> <<NsA2>>
       [] OTHER -> <<>>]

(* The refresh cycles with --include-recall over these regions, in both    *)
(* region modes, with recall due in every cycle or in every second one;    *)
(* a recall call may fail, and may return either of two values.            *)
InitKeys ==
  \E ar \in BOOLEAN, ri \in {1, 2} :
    InitWith(Options(IF ar THEN Undefined ELSE "gcp-us-central1", ar, 1,
                     TRUE, ri),
             Env(TwinWorld, {"recall"}, RecallVals,
                 Horizon(1, KeysMaxIntervals), KeysMaxInFlight, <<>>))

SpecKeys == InitKeys /\ [][NextCycles]_vars

TypeOK ==
  /\ pc \in {"command", "start", "initial", "binding", "listening",
            "closing", "exited", "exited0", "killed"}
  /\ Cardinality(cycles) <= env.maxInFlight
  /\ now <= env.horizon

(* ============================================================ claims *)

HealthOf(cache) == HealthError(cache.error)

IsComment(line, text) == line.k = "comment" /\ line.text = text

HasPlaceholderLine(text) ==
  \E i \in DOMAIN text : IsComment(text[i], Placeholder[1].text)

ServedMetrics == response.status # 0 /\ response.url = "/metrics"

(* C1: after any sequence of successful and failed refresh cycles the text *)
(* /metrics serves is never empty, and once a cycle has succeeded it is    *)
(* never again the start-up placeholder.                                   *)
C1_NeverEmptyNeverPlaceholderAgain ==
  /\ metricsCache.data # <<>>
  /\ audit.succeeded =>
       (metricsCache.data # Placeholder /\ ~HasPlaceholderLine(metricsCache.data))
  /\ ServedMetrics =>
       /\ response.body.text # <<>>
       /\ audit.succeeded =>
            /\ response.body.text # Placeholder
            /\ ~HasPlaceholderLine(response.body.text)

(* C1 witness: /metrics is served after a success followed by a failure. *)
C1_Witness ==
  /\ ServedMetrics
  /\ audit.succeeded /\ audit.lastOutcome = "failed"

(* C2: at most one refresh cycle is in flight at any time (a tick that     *)
(* fires while a refreshMetrics call is awaiting its fetch starts no       *)
(* second cycle).                                                          *)
C2_AtMostOneCycleInFlight == Cardinality(cycles) <= 1

(* The step is the catch block of some cycle. *)
CycleFailed == audit'.completed = audit.completed + 1
                 /\ audit'.lastOutcome = "failed"
                 /\ audit'.fails = audit.fails + 1

(* C3: when a refresh cycle throws, the text served after it is the text   *)
(* served before with a two-line comment (and a blank line) prepended,     *)
(* which names the error and the prior lastUpdate; lastUpdate is unchanged *)
(* and the error of /health is not null.  The text served before is the    *)
(* one served until the cycle ends, which is the one from before the cycle *)
(* started when no other cycle has completed since.                        *)
C3_FailurePrependsComment ==
  [][CycleFailed =>
       /\ \E e \in ErrorMessages :
            /\ metricsCache'.error = e
            /\ metricsCache'.data =
                 << [k |-> "comment", text |-> "Error refreshing metrics: ",
                     arg |-> Str(e)],
                    [k |-> "comment", text |-> "Last successful update: ",
                     arg |-> toISOString(metricsCache.lastUpdate)],
                    BlankLine >> \o metricsCache.data
       /\ metricsCache'.lastUpdate = metricsCache.lastUpdate
       /\ HealthOf(metricsCache') # <<>>
       /\ \A c \in cycles \ cycles' :
            c.pre.completed = audit.completed =>
              /\ metricsCache'.lastUpdate = c.pre.metrics.lastUpdate
              /\ \E e \in ErrorMessages :
                   metricsCache'.data =
                     ErrorComment(e, c.pre.metrics.lastUpdate)
                       \o c.pre.metrics.data]_vars

(* C3 witness: a cycle has failed after one had succeeded. *)
C3_Witness ==
  /\ audit.lastOutcome = "failed" /\ audit.succeeded
  /\ metricsCache.error \in ErrorMessages

(* C4: after any number of consecutive failed cycles that follow a         *)
(* successful one, the served text is the latest successful rendering      *)
(* with one error comment in front.                                        *)
C4_OneCommentOnLastGood ==
  (audit.succeeded /\ audit.lastOutcome = "failed") =>
    \E e \in ErrorMessages :
      metricsCache.data =
        ErrorComment(e, metricsCache.lastUpdate) \o audit.lastGood

(* /health has been served. *)
ServedHealth == response.status # 0 /\ response.url = "/health"

EndsWith(text, tail) ==
  /\ Len(text) >= Len(tail)
  /\ SubSeq(text, Len(text) - Len(tail) + 1, Len(text)) = tail

(* C5: the error of /health is non-null exactly when the most recently     *)
(* completed cycle failed, and null again once a later cycle succeeds,     *)
(* while /metrics keeps the last good rendering through the failures.      *)
C5_HealthReflectsLatestAttempt ==
  /\ (HealthOf(metricsCache) # <<>>) <=> (audit.lastOutcome = "failed")
  /\ ServedHealth =>
       ((response.body.json.error # <<>>) <=> (audit.lastOutcome = "failed"))
  /\ audit.succeeded => EndsWith(metricsCache.data, audit.lastGood)
  /\ (audit.succeeded /\ audit.lastOutcome = "failed") =>
       Len(metricsCache.data) > Len(audit.lastGood)

(* C5 witness: /health reports no error after a success that followed a   *)
(* failure.                                                                *)
C5_Witness ==
  /\ ServedHealth /\ response.body.json.error = <<>>
  /\ audit.everFailed /\ audit.lastOutcome = "ok"

(* C6: in every state, also after a failed cycle, /metrics is answered     *)
(* with 200 and the current cache text, /health and / with 200, and any    *)
(* other url with 404 and the body Not Found.                              *)
C6_Routes ==
  response.status # 0 =>
    /\ response.url = "/metrics" =>
         /\ response.status = 200
         /\ response.body = [text |-> metricsCache.data]
    /\ response.url \in {"/health", "/", ""} => response.status = 200
    /\ response.url \notin {"/metrics", "/health", "/", ""} =>
         /\ response.status = 404
         /\ response.body = [plain |-> "Not Found"]

(* C6 witness: an unknown url is answered after a failed cycle. *)
C6_Witness ==
  /\ response.status = 404 /\ response.url = "/other"
  /\ audit.lastOutcome = "failed"

(* The step is an HTTP request. *)
Served == response' # NoResponse

(* The step ends exactly one refresh cycle. *)
OneCycleCompletes ==
  /\ audit'.completed = audit.completed + 1
  /\ \E c \in cycles : cycles' = cycles \ {c}

(* C7: HTTP handlers only read the cache: a request starts no fetch and    *)
(* changes neither cache, and a request that arrives while a cycle is in   *)
(* flight is served the snapshot from before that cycle (no cycle having   *)
(* completed since).  A cycle writes the caches in one step, the one that  *)
(* completes it.                                                           *)
C7_HandlersOnlyRead ==
  [][/\ Served =>
          /\ UNCHANGED <<metricsCache, recallCache, lastScrape, cycles,
                         started, timer, pc, now, audit>>
          /\ response'.url = "/metrics" =>
               /\ response'.body.text = metricsCache.data
               /\ \A c \in cycles :
                    c.pre.completed = audit.completed =>
                      response'.body.text = c.pre.metrics.data
          /\ response'.url = "/health" =>
               \A c \in cycles :
                 c.pre.completed = audit.completed =>
                   /\ response'.body.json.error = HealthOf(c.pre.metrics)
                   /\ response'.body.json.lastUpdate =
                        toISOString(c.pre.metrics.lastUpdate)
     /\ metricsCache' # metricsCache => OneCycleCompletes
     /\ recallCache' # recallCache => OneCycleCompletes
     /\ \A c \in cycles' :
          c.pre.completed = audit'.completed =>
            /\ metricsCache' = c.pre.metrics
            /\ recallCache' = c.pre.recall]_vars

(* C7 witness: /metrics is served while a cycle is in flight. *)
C7_Witness ==
  /\ ServedMetrics /\ response.status = 200
  /\ \E c \in cycles : c.pre.completed = audit.completed
  /\ audit.completed > 0

(* C8: the listener accepts requests, and the timer runs, only after the   *)
(* initial refresh cycle has completed; when that cycle succeeded, no      *)
(* /metrics response carries the placeholder.                              *)
C8_ServeAfterInitialCycle ==
  /\ (pc = "listening" \/ response.status # 0 \/ timer.armed \/ started > 1)
       => audit.initial # "none"
  /\ pc \in {"start", "initial"} => (~timer.armed /\ response = NoResponse)
  /\ (ServedMetrics /\ audit.initial = "ok") =>
       ~HasPlaceholderLine(response.body.text)

(* C8 witness: /metrics is served after a successful initial cycle. *)
C8_Witness == ServedMetrics /\ audit.initial = "ok"

RecallDue(c) ==
  /\ options.includeRecall
  /\ c.startTime - c.pre.recall.lastUpdate >= options.recallInterval * 1000

(* The step ends a cycle that refreshed recall. *)
DueCycleCompletes ==
  \E c \in cycles : c.shouldRefreshRecall /\ cycles' = cycles \ {c}

RecallDueExactly ==
  /\ \A c \in cycles :
       /\ c.shouldRefreshRecall <=> RecallDue(c)
       /\ c.stage = "recall" => c.shouldRefreshRecall
       /\ c.id = 0 => (c.shouldRefreshRecall <=> options.includeRecall)
       /\ (c.pre.recall.lastUpdate # 0 /\ c.nth <= 59) =>
            (~c.shouldRefreshRecall /\ c.stage # "recall")
       /\ (audit.initial = "ok" /\ c.id \in 1..59) =>
            (~c.shouldRefreshRecall /\ c.stage # "recall")
       /\ (audit.initial = "ok" /\ c.id = 60 /\ options.includeRecall) =>
            c.shouldRefreshRecall
  /\ (audit.initial = "ok" /\ started <= 60) =>
       recallCache = audit.initialRecall

(* C9: a cycle refreshes recall exactly when includeRecall is set and      *)
(* now - recallCache.lastUpdate >= recallInterval, which holds on the      *)
(* first cycle; recall calls are made only in such a cycle, and the        *)
(* recall cache changes only when such a cycle ends.  With recallInterval  *)
(* 3600 and interval 60, the 59 cycles after a refresh make no recall      *)
(* call, the recall cache stays as the first cycle left it during the 59   *)
(* cycles that follow it, and the 60th refreshes it.                       *)
C9_RecallDueExactly ==
  /\ []RecallDueExactly
  /\ [][recallCache' # recallCache => DueCycleCompletes]_vars

(* C9 witness: the 60th cycle after a successful first one has fetched     *)
(* recall again.                                                           *)
C9_Witness ==
  /\ audit.initial = "ok" /\ options.includeRecall
  /\ audit.lastRefreshedRecall /\ audit.lastOutcome = "ok"
  /\ started >= 61 /\ cycles = {}
  /\ recallCache.lastUpdate - audit.initialRecall.lastUpdate
       >= options.recallInterval * 1000

IsRecallSample(line) ==
  line.k = "sample" /\ line.name = "turbopuffer_namespace_recall"

(* The sample carries the labels of a namespace whose recall call has      *)
(* returned a value.                                                       *)
RecallHasReturned(line) ==
  \E p \in audit.recallReturned :
    /\ line.labels[1] = [key |-> "namespace", val |-> escapeLabel(p[1])]
    /\ line.labels[2] =
         [key |-> "region",
          val |-> escapeLabel(Str(IF Falsy(p[2]) THEN "unknown" ELSE p[2]))]

NamesRecall(line) ==
  line.k \in {"help", "type", "sample"} /\
    line.name = "turbopuffer_namespace_recall"

(* C10: every turbopuffer_namespace_recall sample of the served text is    *)
(* for a namespace whose recall call has returned a non-null value         *)
(* before; with includeRecall false no recall call is made and the recall  *)
(* family is in no served text.                                            *)
C10_RecallOnlyIfReturned ==
  /\ \A i \in DOMAIN metricsCache.data :
       IsRecallSample(metricsCache.data[i]) =>
         RecallHasReturned(metricsCache.data[i])
  /\ ~options.includeRecall =>
       /\ audit.recallIssued = {}
       /\ \A c \in cycles : c.stage # "recall" /\ ~c.shouldRefreshRecall
       /\ \A i \in DOMAIN metricsCache.data :
            ~NamesRecall(metricsCache.data[i])

(* C10 witness: a cycle that made no recall call has rendered a recall     *)
(* sample from the cache.                                                  *)
C10_Witness ==
  /\ \E i \in DOMAIN metricsCache.data : IsRecallSample(metricsCache.data[i])
  /\ audit.lastOutcome = "ok" /\ ~audit.lastRefreshedRecall

(* The (namespace, region) label values of the samples of a text. *)
SampledNamespaces(text) ==
  { <<text[i].labels[1].val, text[i].labels[2].val>> :
      i \in {j \in DOMAIN text :
               text[j].k = "sample" /\ Len(text[j].labels) >= 2} }

(* The same labels for every namespace of the regions rs. *)
NamespacesOf(rs) ==
  UNION { { <<escapeLabel(env.world[r][i].id), escapeLabel(Str(r))>> :
              i \in DOMAIN env.world[r] } : r \in rs }

(* C11: in all-regions mode a cycle succeeds whatever regions fail to      *)
(* list (the /health error is null), and its text has samples for exactly  *)
(* the namespaces of the regions that listed in that cycle: nothing of a   *)
(* failed region is there, from this cycle or from an earlier one.         *)
C11_FailedRegionsAbsent ==
  (options.allRegions /\ audit.completed > 0) =>
    /\ audit.lastOutcome = "ok" /\ ~audit.everFailed
    /\ HealthOf(metricsCache) = <<>>
    /\ SampledNamespaces(metricsCache.data) =
         NamespacesOf(Range(TURBOPUFFER_REGIONS) \ audit.lastSkipped)

(* C11 witness: after a cycle that listed every region, a cycle has lost   *)
(* one region with namespaces and kept another.                            *)
C11_Witness ==
  /\ options.allRegions /\ audit.completed >= 2
  /\ audit.lastSkipped # {}
  /\ SampledNamespaces(metricsCache.data) # {}
  /\ cycles = {}

(* The text has a sample of family name for the namespace id. *)
HasSample(text, name, id) ==
  \E i \in DOMAIN text :
    /\ text[i].k = "sample" /\ text[i].name = name
    /\ text[i].labels[1] = [key |-> "namespace", val |-> escapeLabel(id)]

(* The same, with the value v. *)
HasSampleOf(text, name, id, v) ==
  \E i \in DOMAIN text :
    /\ text[i].k = "sample" /\ text[i].name = name
    /\ text[i].labels[1] = [key |-> "namespace", val |-> escapeLabel(id)]
    /\ text[i].value = v

NamespaceFamilies ==
  {"turbopuffer_namespace_rows", "turbopuffer_namespace_logical_bytes",
   "turbopuffer_namespace_unindexed_bytes", "turbopuffer_namespace_recall",
   "turbopuffer_namespace_info"}

(* C12: a failed metadata call leaves its namespace out of every family    *)
(* and every other namespace as it is upstream; a failed recall call       *)
(* leaves out only the recall sample of its namespace; neither fails the   *)
(* cycle nor sets the /health error.                                       *)
C12_NamespaceFailuresStayLocal ==
  audit.completed > 0 =>
    /\ ~audit.everFailed /\ audit.lastOutcome = "ok"
    /\ HealthOf(metricsCache) = <<>>
    /\ \A i \in DOMAIN env.world[options.region] :
         LET ns == env.world[options.region][i]
             key == <<ns.id, options.region>>
             text == metricsCache.data
         IN /\ key \in audit.lastNoMetadata =>
                 \A f \in NamespaceFamilies : ~HasSample(text, f, ns.id)
            /\ key \notin audit.lastNoMetadata =>
                 /\ HasSampleOf(text, "turbopuffer_namespace_rows", ns.id,
                                Num(ns.metadata.approx_row_count))
                 /\ HasSampleOf(text, "turbopuffer_namespace_logical_bytes",
                                ns.id, Num(ns.metadata.approx_logical_bytes))
                 /\ HasSample(text, "turbopuffer_namespace_unindexed_bytes",
                              ns.id)
                 /\ HasSampleOf(text, "turbopuffer_namespace_info", ns.id,
                                Num(1))
            /\ audit.lastRefreshedRecall =>
                 (HasSample(text, "turbopuffer_namespace_recall", ns.id)
                    <=> (key \notin audit.lastNoMetadata
                           /\ key \notin audit.lastNoRecall))

(* C12 witness: one namespace has lost its metadata call and the other     *)
(* its recall call.                                                        *)
C12_Witness ==
  /\ audit.lastNoMetadata = {<<NsA.id, "gcp-us-central1">>}
  /\ audit.lastNoRecall = {<<NsB.id, "gcp-us-central1">>}
  /\ HasSample(metricsCache.data, "turbopuffer_namespace_rows", NsB.id)
  /\ cycles = {}

(* C13 as stated: no failure of a listing, metadata or recall call makes   *)
(* fetchNamespacesWithMetadata raise, in either region mode (the options   *)
(* of a run are valid), so no cycle ends in the catch block.               *)
C13_FetchNeverRaises == ~audit.everFailed

(* C13, amended: fetchNamespacesWithMetadata raises only when the listing  *)
(* call of single-region mode fails; no failure of a metadata or recall    *)
(* call, and no listing failure of all-regions mode, makes it raise.       *)
C13_RaisesOnlyOnSingleRegionListing ==
  [][CycleFailed =>
       /\ ~options.allRegions
       /\ \E c \in cycles : cycles' = cycles \ {c} /\ c.stage = "list"]_vars

(* C13 witness: the listing call of single-region mode has failed and the  *)
(* cycle has ended in the catch block.                                     *)
C13_Witness ==
  /\ ~options.allRegions /\ audit.lastOutage
  /\ audit.lastOutcome = "failed" /\ metricsCache.error \in ErrorMessages
  /\ audit.completed >= 2

(* C14: a cycle in which every listing call failed ends as a cycle-level   *)
(* error in both region modes: the /health error is set and the text is    *)
(* the text served until then under the error comment.                     *)
C14_OutageIsCycleError ==
  (audit.completed > 0 /\ audit.lastOutage) =>
    /\ audit.lastOutcome = "failed"
    /\ HealthOf(metricsCache) # <<>>
    /\ Len(metricsCache.data) >= 3
    /\ IsComment(metricsCache.data[1], "Error refreshing metrics: ")
    /\ IsComment(metricsCache.data[2], "Last successful update: ")

(* C15: every outbound call ends within the configured timeout, by its    *)
(* answer or as a failure; stated for the first listing call of a cycle,   *)
(* which is issued when the cycle starts: it is not pending for longer     *)
(* than options.timeout seconds.                                           *)
C15_CallsEndWithinTimeout ==
  \A c \in cycles :
    (c.stage = "list" /\ c.ri = 1) =>
      now - c.startTime <= options.timeout * 1000

(* The regions a fetch of this run asks, and the region label it gives. *)
AskedRegions ==
  IF options.allRegions THEN Range(TURBOPUFFER_REGIONS)
  ELSE {getTurbopufferClient(options.region)}

RegionLabel(r) ==
  escapeLabel(Str(IF options.allRegions THEN r
                  ELSE IF Falsy(options.region) THEN "unknown"
                  ELSE options.region))

IsUnindexedSample(line) ==
  line.k = "sample" /\ line.name = "turbopuffer_namespace_unindexed_bytes"

(* What the claim expects for a namespace with this upstream metadata. *)
ExpectedUnindexed(metadata) ==
  IF metadata.index.status = "up-to-date" THEN Num(0)
  ELSE IF metadata.index.unindexed_bytes = <<>> THEN Num(0)
  ELSE Num(metadata.index.unindexed_bytes[1])

(* C16: every turbopuffer_namespace_unindexed_bytes sample is 0 for a      *)
(* namespace whose index status is up-to-date, whatever unindexed_bytes    *)
(* the upstream metadata carries, and for a namespace that is updating it  *)
(* is the upstream unindexed_bytes, or 0 when that is missing.             *)
C16_UnindexedBytes ==
  \A i \in DOMAIN metricsCache.data :
    LET line == metricsCache.data[i]
    IN IsUnindexedSample(line) =>
         \E r \in AskedRegions :
           \E j \in DOMAIN env.world[r] :
             /\ line.labels[1].val = escapeLabel(env.world[r][j].id)
             /\ line.labels[2].val = RegionLabel(r)
             /\ line.value = ExpectedUnindexed(env.world[r][j].metadata)

(* C16 witness: the text has the sample of an up-to-date namespace whose   *)
(* upstream unindexed_bytes is 256, and the one of an updating namespace.  *)
C16_Witness ==
  /\ NsA.metadata.index = [status |-> "up-to-date", unindexed_bytes |-> <<256>>]
  /\ HasSampleOf(metricsCache.data, "turbopuffer_namespace_unindexed_bytes",
                 NsA.id, Num(0))
  /\ HasSampleOf(metricsCache.data, "turbopuffer_namespace_unindexed_bytes",
                 NsB.id, Num(256))

(* Un-escaping by the rules of the exposition format: \\ is a backslash,  *)
(* \" a double quote, \n a newline.                                        *)
RECURSIVE Unescape(_)
Unescape(str) ==
  IF str = <<>> THEN <<>>
  ELSE IF Head(str) = BS /\ Len(str) >= 2
  THEN (CASE str[2] = BS -> <<BS>>
          [] str[2] = DQ -> <<DQ>>
          [] str[2] = "n" -> <<NL>>
          [] OTHER -> <<BS, str[2]>>)
         \o Unescape(SubSeq(str, 3, Len(str)))
  ELSE <<Head(str)>> \o Unescape(Tail(str))

(* No raw newline, no double quote outside an escape, no other escape. *)
RECURSIVE WellEscaped(_)
WellEscaped(str) ==
  IF str = <<>> THEN TRUE
  ELSE IF Head(str) = BS
  THEN /\ Len(str) >= 2 /\ str[2] \in {BS, DQ, "n"}
       /\ WellEscaped(SubSeq(str, 3, Len(str)))
  ELSE Head(str) \notin {DQ, NL} /\ WellEscaped(Tail(str))

(* The id of the namespace of the run. *)
TheId == env.world["gcp-us-central1"][1].id

(* C17: un-escaping escapeLabel(value) gives value back, and the escaped   *)
(* value has no raw newline and no unescaped double quote, for every       *)
(* value of ordinary characters, double quotes, backslashes and newlines;  *)
(* so for the namespace label of every rendered sample.                    *)
C17_EscapeRoundTrips ==
  /\ Unescape(escapeLabel(TheId)) = TheId
  /\ WellEscaped(escapeLabel(TheId))
  /\ \A i \in DOMAIN metricsCache.data :
       LET line == metricsCache.data[i]
       IN (line.k = "sample" /\ line.labels # <<>>) =>
            /\ WellEscaped(line.labels[1].val)
            /\ Unescape(line.labels[1].val) = TheId
            /\ \A j \in DOMAIN line.labels : WellEscaped(line.labels[j].val)

(* C17 witness: a sample is rendered for an id with a double quote, a      *)
(* backslash and a newline.                                                *)
C17_Witness ==
  /\ TheId = <<BS, DQ, NL>>
  /\ HasSample(metricsCache.data, "turbopuffer_namespace_rows", TheId)
  /\ \E i \in DOMAIN metricsCache.data :
       /\ metricsCache.data[i].k = "sample"
       /\ metricsCache.data[i].labels # <<>>
       /\ metricsCache.data[i].labels[1].val = <<BS, BS, BS, DQ, BS, "n">>

(* ------------------------------------------------------------------ C18 *)

(* The number a command-line value stands for, if it is one. *)
IsNumber(arg) == ~isNaN(parseInt(arg))
NumberOf(arg) == parseInt(arg)[1]

AtLeastOne(arg) == IsNumber(arg) /\ NumberOf(arg) >= 1

(* The configuration the command line gives is a valid one. *)
ValidConfiguration(argv) ==
  /\ IsNumber(argv.port) /\ NumberOf(argv.port) \in 1..65535
  /\ AtLeastOne(argv.interval)
  /\ AtLeastOne(argv.timeout)
  /\ AtLeastOne(argv.recallInterval)
  /\ ~(argv.allRegions /\ argv.region \notin {Undefined, ""})

NothingDone ==
  /\ started = 0 /\ cycles = {} /\ audit.completed = 0
  /\ audit.listed = {} /\ audit.recallIssued = {}
  /\ ~timer.armed
  /\ response = NoResponse
  /\ metricsCache = InitMetricsCache /\ recallCache = InitRecallCache

(* C18: with an invalid configuration (a port outside 1-65535; a refresh   *)
(* interval, timeout or recall interval below 1 or not a number; both an   *)
(* explicit region and all-regions mode) the process exits with a non-zero *)
(* status: it never gets past the command, starts no fetch and opens no    *)
(* listener, and the one step it takes is the exit.                        *)
C18_InvalidConfigurationExits ==
  /\ [](~ValidConfiguration(env.argv) =>
          (pc \in {"command", "exited"} /\ NothingDone))
  /\ [][(pc = "command" /\ ~ValidConfiguration(env.argv))
          => pc' = "exited"]_vars

(* The command has exited on a command line whose numbers are all fine and *)
(* that names a region together with --all-regions.                        *)
C18_Witness ==
  /\ pc = "exited"
  /\ env.argv.allRegions /\ env.argv.region = "gcp-us-central1"
  /\ IsNumber(env.argv.port) /\ NumberOf(env.argv.port) = 65535
  /\ AtLeastOne(env.argv.interval) /\ AtLeastOne(env.argv.timeout)
  /\ AtLeastOne(env.argv.recallInterval)
  /\ NothingDone

(* ------------------------------------------------------------------ C19 *)

Signalled == forceExit # <<>> \/ pc = "killed"

Exited == pc \in {"exited", "exited0", "killed"}

(* C19: after a SIGTERM or SIGINT the refresh timer is stopped and no new  *)
(* cycle starts, the listener is closed, and the process eventually exits: *)
(* with status 0 only from the callback of the closed listener, and        *)
(* otherwise by the forced exit, which comes five seconds after the        *)
(* signal and no later.                                                    *)
C19_ShutdownStopsTimerAndExits ==
  /\ [](Signalled => (~timer.armed /\ pc \notin {"binding", "listening"}))
  /\ [][Signalled => started' = started]_vars
  /\ [][(~Signalled /\ pc' = "closing") => forceExit' = <<now + 5000>>]_vars
  /\ [][(Signalled /\ pc' = "closing") => forceExit' = forceExit]_vars
  /\ [](pc = "closing" => now <= forceExit[1])
  /\ [][pc' = "exited0" => pc = "closing"]_vars
  /\ [][(pc = "closing" /\ pc' = "exited") => now = forceExit[1]]_vars
  /\ (Signalled ~> Exited)

(* The forced exit has happened, at a time when the timer would have      *)
(* fired had it not been stopped.                                          *)
C19_Witness ==
  /\ pc = "exited" /\ forceExit # <<>> /\ now = forceExit[1]
  /\ timer.next <= now
  /\ started < 1 + ((now - ProcessStart) \div (options.interval * 1000))

(* ------------------------------------------------------------------ C20 *)

(* The step is the successful end of some cycle. *)
CycleSucceeded == audit'.completed = audit.completed + 1
                    /\ audit'.lastOutcome = "ok"

HasComment(text) == \E i \in DOMAIN text : text[i].k = "comment"

(* C20: a failed refresh cycle neither ends the process nor stops the      *)
(* timer (a timer that runs keeps its next tick, and the failed initial    *)
(* cycle is followed by the start of the timer), and the first cycle that  *)
(* succeeds after a run of failures replaces the text with a rendering     *)
(* that has no comment line, sets lastUpdate to the time of the write, not *)
(* earlier than before, and resets the error /health reports to null.      *)
C20_FailuresAreSurvived ==
  [][/\ CycleFailed =>
          /\ pc' \in {"binding", "listening"}
          /\ timer'.armed
          /\ timer.armed => timer' = timer
          /\ cycles' \subseteq cycles
     /\ (CycleSucceeded /\ audit.fails > 0) =>
          /\ HasComment(metricsCache.data)
          /\ ~HasComment(metricsCache'.data)
          /\ metricsCache'.data = audit'.lastGood
          /\ metricsCache'.lastUpdate = now
          /\ metricsCache'.lastUpdate >= metricsCache.lastUpdate
          /\ metricsCache'.error = Undefined
          /\ HealthOf(metricsCache') = <<>>]_vars

(* A cycle started by a tick has succeeded after a failure, and the timer  *)
(* still runs.                                                             *)
C20_Witness ==
  /\ audit.everFailed /\ audit.lastOutcome = "ok" /\ audit.completed >= 2
  /\ started >= 2 /\ timer.armed /\ pc = "listening"
  /\ ~HasComment(metricsCache.data) /\ metricsCache.error = Undefined

(* ------------------------------------------------------------------ C21 *)

(* The recall cache holds the value v for the namespace id of region r. *)
CacheHolds(cache, id, r, v) ==
  /\ id \in DOMAIN cache.data
  /\ cache.data[id].region = r
  /\ cache.data[id].recall = v

(* The text has a recall sample with the value v for the namespace id of   *)
(* region r.                                                               *)
EmitsRecall(text, id, r, v) ==
  \E i \in DOMAIN text :
    /\ IsRecallSample(text[i])
    /\ text[i].labels[1].val = escapeLabel(id)
    /\ text[i].labels[2].val =
         escapeLabel(Str(IF Falsy(r) THEN "unknown" ELSE r))
    /\ text[i].value = v.avg_recall

(* C21: every (id, region) that came back with a recall value from the     *)
(* latest fetch that refreshed recall has its own entry in the recall      *)
(* cache, also when another region has a namespace of the same id, and a   *)
(* later cycle that does not refresh recall emits each of them with that   *)
(* value.                                                                  *)
C21_EntryPerIdAndRegion ==
  \A k \in DOMAIN audit.computed :
    /\ CacheHolds(recallCache, k[1], k[2], audit.computed[k])
    /\ (audit.lastOutcome = "ok" /\ ~audit.lastRefreshedRecall
          /\ k \in audit.fetched /\ k \notin audit.lastNoMetadata)
         => EmitsRecall(metricsCache.data, k[1], k[2], audit.computed[k])

(* ------------------------------------------------------------------ C22 *)

(* The latest cycle to end succeeded without refreshing recall. *)
MergedFromCache ==
  options.includeRecall /\ audit.lastOutcome = "ok"
    /\ ~audit.lastRefreshedRecall

HasRecallSample(text, id, r) ==
  \E v \in RecallVals : EmitsRecall(text, id, r, v)

CacheMatches(cache, id, r) ==
  id \in DOMAIN cache.data /\ cache.data[id].region = r

(* C22: after a cycle with includeRecall that did not refresh recall, a    *)
(* rendered namespace has a recall sample exactly when the cache holds an  *)
(* entry for its id with its region; the sample then carries the value of  *)
(* that entry, which is the value computed for this namespace in this      *)
(* region, and no recall sample is for anything else.                      *)
C22_MergeOnlyOnRegionMatch ==
  MergedFromCache =>
    /\ \A k \in audit.fetched \ audit.lastNoMetadata :
         /\ HasRecallSample(metricsCache.data, k[1], k[2])
              <=> CacheMatches(recallCache, k[1], k[2])
         /\ \A v \in RecallVals :
              EmitsRecall(metricsCache.data, k[1], k[2], v) =>
                /\ v = recallCache.data[k[1]].recall
                /\ k \in DOMAIN audit.computed /\ v = audit.computed[k]
    /\ \A i \in DOMAIN metricsCache.data :
         IsRecallSample(metricsCache.data[i]) =>
           \E k \in audit.fetched \ audit.lastNoMetadata :
             /\ metricsCache.data[i].labels[1].val = escapeLabel(k[1])
             /\ metricsCache.data[i].labels[2].val =
                  escapeLabel(Str(IF Falsy(k[2]) THEN "unknown" ELSE k[2]))

(* Two regions hold a namespace a, whose recall calls returned different   *)
(* values; a later cycle merged from the cache and rendered both: the one  *)
(* of the cached region has a recall sample, the other has none.           *)
C22_Witness ==
  /\ MergedFromCache /\ options.allRegions
  /\ {<<Str("a"), "gcp-us-central1">>, <<Str("a"), "aws-us-east-1">>}
       \subseteq (audit.fetched \cap DOMAIN audit.computed)
  /\ audit.computed[<<Str("a"), "gcp-us-central1">>]
       # audit.computed[<<Str("a"), "aws-us-east-1">>]
  /\ HasRecallSample(metricsCache.data, Str("a"), "aws-us-east-1")
  /\ ~HasRecallSample(metricsCache.data, Str("a"), "gcp-us-central1")

(* ------------------------------------------------------------------ C23 *)

(* No other region has a namespace of this id. *)
IdOfOneRegion(id) ==
  Cardinality({r \in Range(TURBOPUFFER_REGIONS) :
                 \E i \in DOMAIN env.world[r] : env.world[r][i].id = id}) = 1

(* C23: for each (id, region) the recall cache holds the value of the      *)
(* latest recall call that succeeded for it, whatever has failed in the    *)
(* recall-refresh cycles since (stated for the ids that one region only    *)
(* holds, and in single-region mode).                                      *)
C23_LastComputedIsKept ==
  \A k \in DOMAIN audit.everComputed :
    (IdOfOneRegion(k[1]) \/ ~options.allRegions) =>
      CacheHolds(recallCache, k[1], k[2], audit.everComputed[k])

(* ------------------------------------------------------------------ C24 *)

(* C24: in a cycle that refreshes recall, the recall call of every         *)
(* namespace of a region has been issued while the metadata calls of that  *)
(* region are still in flight.                                             *)
C24_RecallIssuedWithMetadata ==
  \A c \in cycles :
    (c.shouldRefreshRecall /\ c.stage = "metadata") =>
      \A i \in DOMAIN c.page :
        <<c.page[i].id, RegionOf(options, c.ri)>> \in audit.recallIssued

(* ------------------------------------------------------------------ C25 *)

(* The (id, region) of the namespaces of the first n regions of the list,  *)
(* in list order, without the regions of the set skipped.                  *)
InRegionOrder(n, skipped) ==
  Flatten([j \in 1..n |->
             LET r == TURBOPUFFER_REGIONS[j]
             IN IF r \in skipped THEN <<>>
                ELSE [i \in DOMAIN env.world[r] |-> <<env.world[r][i].id, r>>]])

KeysOf(acc) ==
  [i \in DOMAIN acc |-> <<acc[i].namespace.id, acc[i].region>>]

SkippedBy(c) == {p[2] : p \in {q \in audit.skipped : q[1] = c.id}}

(* The (namespace, region) labels of the rows samples of a text, in order. *)
RowsSamples(text) ==
  LET rows == SelectSeq(text, LAMBDA line :
                line.k = "sample" /\ line.name = "turbopuffer_namespace_rows")
  IN [i \in DOMAIN rows |-> <<rows[i].labels[1].val, rows[i].labels[2].val>>]

Escaped(keys) ==
  [i \in DOMAIN keys |-> <<escapeLabel(keys[i][1]), escapeLabel(Str(keys[i][2]))>>]

(* Every namespace call the fetch has issued for its current region has    *)
(* completed or failed.                                                    *)
NamespaceCallsDone(c) ==
  \/ c.stage = "list"
  \/ c.stage = "metadata" /\ ~c.shouldRefreshRecall
  \/ c.stage = "recall"

(* C25: in all-regions mode a fetch is at one region at a time, in list    *)
(* order: what it has collected is, in region order, every namespace of    *)
(* the regions before the current one that listed; it moves to the next    *)
(* region, and returns after the last one, only when the namespace calls   *)
(* of the current region have completed; and the text of the cycle has the *)
(* namespaces in region order.                                             *)
C25_RegionsOneAtATime ==
  /\ [](options.allRegions =>
          /\ \A c \in cycles :
               /\ c.ri \in 1..Len(TURBOPUFFER_REGIONS)
               /\ KeysOf(c.acc) = InRegionOrder(c.ri - 1, SkippedBy(c))
          /\ audit.completed > 0 =>
               RowsSamples(metricsCache.data) =
                 Escaped(InRegionOrder(Len(TURBOPUFFER_REGIONS),
                                       audit.lastSkipped)))
  /\ [][options.allRegions =>
          \A c \in cycles :
            /\ \A d \in cycles' :
                 d.id = c.id =>
                   \/ d.ri = c.ri
                   \/ /\ d.ri = c.ri + 1 /\ d.stage = "list"
                      /\ NamespaceCallsDone(c)
            /\ (\A d \in cycles' : d.id # c.id) =>
                 /\ c.ri = Len(TURBOPUFFER_REGIONS)
                 /\ NamespaceCallsDone(c)]_vars

(* An all-regions cycle has rendered the namespaces of two regions, and    *)
(* the next one is past the first of them.                                 *)
C25_Witness ==
  /\ options.allRegions /\ audit.completed > 0
  /\ Len(RowsSamples(metricsCache.data)) = 3
  /\ \E c \in cycles : c.ri > 1 /\ c.acc # <<>>

(* ------------------------------------------------------------------ C26 *)

ExporterGauges ==
  {"turbopuffer_exporter_scrape_duration_seconds",
   "turbopuffer_exporter_last_scrape_timestamp_seconds"}

LinesOf(text, kind, name) ==
  {i \in DOMAIN text : text[i].k = kind /\ text[i].name = name}

(* The family is in the text as one HELP line, one TYPE line after it and  *)
(* its samples after that, with no other line in between.                  *)
WellFormedFamily(text, name) ==
  LET help == LinesOf(text, "help", name)
      type == LinesOf(text, "type", name)
      samples == LinesOf(text, "sample", name)
  IN /\ Cardinality(help) = 1 /\ Cardinality(type) = 1 /\ samples # {}
     /\ \E h \in help :
          /\ type = {h + 1}
          /\ samples = (h + 2)..(h + 1 + Cardinality(samples))

AbsentFamily(text, name) ==
  LinesOf(text, "help", name) \cup LinesOf(text, "type", name)
    \cup LinesOf(text, "sample", name) = {}

(* C26: the text of every successful cycle has the two exporter gauges,    *)
(* each with one sample; every per-namespace family is either absent,      *)
(* HELP and TYPE lines included, or there with at least one sample; and no *)
(* line names any other family.  This holds also for a cycle that fetched  *)
(* no namespace, whose text is the two gauges.                             *)
C26_NoEmptyFamilies ==
  audit.lastOutcome = "ok" =>
    LET text == metricsCache.data
    IN /\ \A g \in ExporterGauges :
            /\ WellFormedFamily(text, g)
            /\ Cardinality(LinesOf(text, "sample", g)) = 1
       /\ \A n \in NamespaceFamilies :
            WellFormedFamily(text, n) \/ AbsentFamily(text, n)
       /\ \A i \in DOMAIN text :
            \/ text[i].k = "blank"
            \/ /\ text[i].k \in {"help", "type", "sample"}
               /\ text[i].name \in ExporterGauges \cup NamespaceFamilies
       /\ audit.fetched = {} =>
            \A n \in NamespaceFamilies : AbsentFamily(text, n)

(* A cycle that fetched no namespace has succeeded: its text is the two    *)
(* gauges.                                                                 *)
C26_Witness ==
  /\ audit.lastOutcome = "ok" /\ audit.fetched = {} /\ audit.lastOutage
  /\ \A g \in ExporterGauges : WellFormedFamily(metricsCache.data, g)
  /\ Len(metricsCache.data) = 7

(* ------------------------------------------------------------------ C27 *)

(* The families every namespace with metadata has a sample in. *)
MetadataFamilies ==
  {"turbopuffer_namespace_rows", "turbopuffer_namespace_logical_bytes",
   "turbopuffer_namespace_unindexed_bytes", "turbopuffer_namespace_info"}

(* The upstream metadata of the namespace id of region r. *)
Upstream(id, r) ==
  LET page == env.world[getTurbopufferClient(r)]
  IN page[CHOOSE i \in DOMAIN page : page[i].id = id].metadata

(* The four labels the claim gives the samples of a namespace. *)
SharedLabels(id, r) ==
  LET metadata == Upstream(id, r)
  IN << [key |-> "namespace", val |-> escapeLabel(id)],
        [key |-> "region",
         val |-> escapeLabel(Str(IF Falsy(r) THEN "unknown" ELSE r))],
        [key |-> "encryption",
         val |-> IF metadata.encryption # Null
                     /\ metadata.encryption.cmek # Null
                 THEN Str("cmek") ELSE Str("sse")],
        [key |-> "index_status", val |-> Str(metadata.index.status)] >>

(* The samples of a family that are for the namespace id of region r. *)
SamplesFor(text, name, id, r) ==
  {i \in LinesOf(text, "sample", name) :
     /\ text[i].labels[1].val = escapeLabel(id)
     /\ text[i].labels[2].val =
          escapeLabel(Str(IF Falsy(r) THEN "unknown" ELSE r))}

ExpectedValue(name, metadata) ==
  CASE name = "turbopuffer_namespace_rows" -> Num(metadata.approx_row_count)
    [] name = "turbopuffer_namespace_logical_bytes" ->
         Num(metadata.approx_logical_bytes)
    [] name = "turbopuffer_namespace_unindexed_bytes" ->
         ExpectedUnindexed(metadata)
    [] name = "turbopuffer_namespace_info" -> Num(1)

(* C27: in the text of a successful cycle every fetched namespace whose    *)
(* metadata call succeeded has exactly one sample in each of the rows,     *)
(* logical-bytes, unindexed-bytes and info families, and these families    *)
(* have no other samples; the four samples start with the same labels      *)
(* namespace, region, encryption, index_status (the info sample adds       *)
(* updated_at); the rows and bytes values are the upstream ones and the    *)
(* info value is 1.                                                        *)
C27_OneSamplePerFamily ==
  audit.lastOutcome = "ok" =>
    LET text == metricsCache.data
        kept == audit.fetched \ audit.lastNoMetadata
    IN \A f \in MetadataFamilies :
         /\ Cardinality(LinesOf(text, "sample", f)) = Cardinality(kept)
         /\ \A k \in kept :
              /\ Cardinality(SamplesFor(text, f, k[1], k[2])) = 1
              /\ \A i \in SamplesFor(text, f, k[1], k[2]) :
                   /\ SubSeq(text[i].labels, 1, 4) = SharedLabels(k[1], k[2])
                   /\ text[i].value = ExpectedValue(f, Upstream(k[1], k[2]))
                   /\ IF f = "turbopuffer_namespace_info"
                      THEN /\ Len(text[i].labels) = 5
                           /\ text[i].labels[5] =
                                [key |-> "updated_at",
                                 val |-> escapeLabel(
                                           Upstream(k[1], k[2]).updated_at)]
                      ELSE Len(text[i].labels) = 4

(* The scenario of the claim: a (100 rows, up-to-date) and b (updating,    *)
(* 256 unindexed bytes) are both in the text.                              *)
C27_Witness ==
  /\ audit.lastOutcome = "ok" /\ Cardinality(audit.fetched) = 2
  /\ audit.lastNoMetadata = {}
  /\ HasSampleOf(metricsCache.data, "turbopuffer_namespace_rows",
                 Str("a"), Num(100))
  /\ HasSampleOf(metricsCache.data, "turbopuffer_namespace_logical_bytes",
                 Str("a"), Num(2048))
  /\ HasSampleOf(metricsCache.data, "turbopuffer_namespace_unindexed_bytes",
                 Str("a"), Num(0))
  /\ HasSampleOf(metricsCache.data, "turbopuffer_namespace_unindexed_bytes",
                 Str("b"), Num(256))
  /\ HasSampleOf(metricsCache.data, "turbopuffer_namespace_info",
                 Str("b"), Num(1))

(* ------------------------------------------------------------------ C28 *)

(* The region whose listing call cycle c has issued last. *)
Queried(c) == getTurbopufferClient(RegionOf(options, c.ri))

(* A fetch is at its only region in single-region mode, the given one or   *)
(* else the default of the client, and at a region of the static list in   *)
(* all-regions mode, the ri-th one.                                        *)
TargetsAreRegionOrList ==
  \A c \in cycles :
    IF options.allRegions
    THEN /\ c.ri \in 1..Len(TURBOPUFFER_REGIONS)
         /\ Queried(c) = TURBOPUFFER_REGIONS[c.ri]
    ELSE /\ c.ri = 1
         /\ Queried(c) = IF options.region \in {Undefined, ""}
                         THEN "aws-us-east-1" ELSE options.region

(* A fetch issues its listing calls one region of the list after the       *)
(* other, from the first, and ends after the last: with no region twice in *)
(* the list, each region is queried once per cycle.                        *)
EachRegionOnce ==
  /\ \A d \in cycles' : (\A c \in cycles : c.id # d.id) =>
       d.ri = 1 /\ d.stage = "list"
  /\ \A c \in cycles :
       /\ \A d \in cycles' :
            d.id = c.id =>
              \/ d.ri = c.ri /\ ~(c.stage # "list" /\ d.stage = "list")
              \/ d.ri = c.ri + 1 /\ d.stage = "list"
       /\ (options.allRegions /\ \A d \in cycles' : d.id # c.id) =>
            c.ri = Len(TURBOPUFFER_REGIONS)

DueAt(t, lastUpdate) ==
  options.includeRecall /\ t - lastUpdate >= options.recallInterval * 1000

(* C29: the recall cache, entries and lastUpdate, changes only in the step *)
(* that ends a cycle successfully for which recall was due, and lastUpdate *)
(* is then the time of that step; a cycle that fails leaves it as it is,   *)
(* so that recall is still due after the failure of a cycle that had it    *)
(* due (no other cycle having replaced the cache meanwhile), and the cycle *)
(* started next refreshes recall: a cycle refreshes recall when recall is  *)
(* due at its start.                                                       *)
C29_RecallCacheFrame ==
  [][/\ recallCache' # recallCache =>
          /\ CycleSucceeded
          /\ \E c \in cycles :
               /\ cycles' = cycles \ {c}
               /\ c.shouldRefreshRecall /\ RecallDue(c)
          /\ recallCache'.lastUpdate = now
     /\ CycleFailed =>
          /\ recallCache' = recallCache
          /\ \A c \in cycles :
               (cycles' = cycles \ {c} /\ c.shouldRefreshRecall
                  /\ recallCache = c.pre.recall)
                 => DueAt(now', recallCache'.lastUpdate)
     /\ \A d \in cycles' :
          (\A c \in cycles : c.id # d.id) =>
            (d.shouldRefreshRecall <=> DueAt(now, recallCache.lastUpdate))]_vars

(* After the failure of the first cycle, which had recall due, the next    *)
(* cycle is fetching recall.                                               *)
C29_Witness ==
  /\ audit.initial = "failed" /\ audit.lastOutcome = "failed"
  /\ recallCache = InitRecallCache
  /\ \E c \in cycles :
       c.id = 1 /\ c.pre.completed = 1 /\ c.shouldRefreshRecall
         /\ c.stage = "recall"

(* ------------------------------------------------------------------ C30 *)

(* The delete command alone.  The ids are ta, Tb and p; a listing gives    *)
(* some of them, in some order.                                            *)
DeleteIds == {<<"t", "a">>, <<"T", "b">>, <<"p">>}

Pages ==
  UNION {{page \in [1..n -> DeleteIds] :
            \A i, j \in 1..n : page[i] = page[j] => i = j} :
         n \in 0..DeleteMaxNamespaces}

(* -n: not given, given as the empty string, given as ta. *)
NamespaceArgs == {<<>>, << <<>> >>, << <<"t", "a">> >>}

(* --prefix: not given, the empty string, t, T, and x, which no id has. *)
PrefixArgs == {<<>>, << <<>> >>, << <<"t">> >>, << <<"T">> >>, << <<"x">> >>}

(* What the user types at the prompt. *)
Lines ==
  {<<"y">>, <<"Y">>, <<" ", "y", "e", "s", " ">>, <<"Y", "E", "S">>,
   <<"n">>, <<>>, <<"y", "o", "l", "o">>, <<"Y", "O", "L", "O">>,
   <<" ", "y", "o", "l", "o">>, <<"t">>, <<"T", " ">>, <<"t", "a">>}

InitDelete ==
  \E n \in NamespaceArgs, a \in BOOLEAN, p \in PrefixArgs :
    /\ InitProcess(Options(Undefined, FALSE, 1, FALSE, 1),
                   Env(SmallWorld, {}, {Recall(950)},
                       Horizon(1, MaxIntervals), MaxInFlight, <<>>),
                   "delete")
    /\ deleteCmd = DeleteStart([namespace |-> n, all |-> a, prefix |-> p])

NextDelete ==
  \/ DeleteAction
  \/ \E page \in Pages : NamespacesListed(page)
  \/ NamespacesFailed
  \/ \E line \in Lines : prompt(line)
  \/ \E ok \in BOOLEAN : deleteAll(ok)

SpecDelete == InitDelete /\ [][NextDelete]_vars

(* An option is given when it has a value that is not empty. *)
Given(option) == option # <<>> /\ option[1] # <<>>

ExactlyOneGiven(opts) ==
  \/ Given(opts.namespace) /\ ~opts.all /\ ~Given(opts.prefix)
  \/ ~Given(opts.namespace) /\ opts.all /\ ~Given(opts.prefix)
  \/ ~Given(opts.namespace) /\ ~opts.all /\ Given(opts.prefix)

(* The lines that say y or yes, and the ones that say yolo: blanks around  *)
(* the word do not count, and the case of y and yes does not either.       *)
YesLines ==
  {<<"y">>, <<"Y">>, <<" ", "y", "e", "s", " ">>, <<"Y", "E", "S">>}

YoloLines == {<<"y", "o", "l", "o">>, <<" ", "y", "o", "l", "o">>}

(* The user has typed the confirmation the chosen option asks for. *)
UserConfirmed(d) ==
  /\ d.typed # <<>>
  /\ \/ Given(d.options.namespace) /\ d.typed[1] \in YesLines
     \/ d.options.all /\ d.typed[1] \in YoloLines
     \/ /\ Given(d.options.prefix)
        /\ toLowerCase(trim(d.typed[1])) = toLowerCase(d.options.prefix[1])

(* The namespaces the confirmed command is to delete: the one of -n, the   *)
(* listed ones of --all, the listed ones that start with the prefix.       *)
Selected(d) ==
  IF Given(d.options.namespace) THEN {d.options.namespace[1]}
  ELSE IF d.options.all THEN Range(d.page)
  ELSE {id \in Range(d.page) :
          startsWith(toLowerCase(id), toLowerCase(d.options.prefix[1]))}

Outcomes(d, ok) == Cardinality({i \in DOMAIN d.calls : d.calls[i].ok = ok})

(* C30: a delete call is made only when exactly one of -n, --all and       *)
(* --prefix was given and the user has typed the confirmation of that      *)
(* option (y or yes; exactly yolo; the prefix); the calls are for the      *)
(* selected namespaces, one each; with --all and --prefix a failed call    *)
(* does not end the command, which is done exactly when every selected     *)
(* namespace has had its call, and then successCount and failCount, which  *)
(* count the calls that succeeded and failed, sum to the number of         *)
(* selected namespaces.  Without exactly one option the command exits.     *)
C30_NoDeleteBeforeConfirmation ==
  LET d == deleteCmd IN
  /\ ~ExactlyOneGiven(d.options) => d.pc \in {"none", "action", "exited1"}
  /\ d.calls # <<>> =>
       /\ ExactlyOneGiven(d.options)
       /\ UserConfirmed(d)
       /\ Range(d.namespaces) = Selected(d)
       /\ Len(d.namespaces) = Cardinality(Selected(d))
  /\ Len(d.calls) <= Len(d.namespaces)
  /\ \A i \in DOMAIN d.calls : d.calls[i].id = d.namespaces[i]
  /\ (d.calls # <<>> /\ ~Given(d.options.namespace)) =>
       /\ d.pc \in {"deleting", "done"}
       /\ d.pc = "done" <=> Len(d.calls) = Len(d.namespaces)
       /\ d.successCount = Outcomes(d, TRUE)
       /\ d.failCount = Outcomes(d, FALSE)
       /\ d.pc = "done" =>
            d.successCount + d.failCount = Cardinality(Selected(d))

(* --prefix t was confirmed by typing T and a blank; the delete of ta      *)
(* failed, the one of Tb was made all the same and succeeded.              *)
C30_Witness ==
  /\ deleteCmd.pc = "done"
  /\ deleteCmd.options.prefix = << <<"t">> >>
  /\ deleteCmd.typed = << <<"T", " ">> >>
  /\ deleteCmd.calls = << [id |-> <<"t", "a">>, ok |-> FALSE],
                          [id |-> <<"T", "b">>, ok |-> TRUE] >>
  /\ deleteCmd.successCount = 1 /\ deleteCmd.failCount = 1

====
